---- MODULE Spec2Model ----
(***************************************************************************)
(* Tenebrium full node: UTXO set with apply/rollback, header chain with   *)
(* difficulty retargeting and best-work tip selection, block validation,   *)
(* reorg engine and mempool admission, modelled from the Rust sources.     *)
(*                                                                         *)
(* Integers of the program that exceed TLC's 32-bit integers (u64 values,  *)
(* u128 targets and cumulative work) are kept exact as natural numbers in  *)
(* little-endian base-256 digit sequences without leading zero digits      *)
(* ("Big" numbers, <<>> is zero); their width is enforced where the code   *)
(* enforces it (checked_add, saturating_add, saturating_mul, <<).          *)
(***************************************************************************)
EXTENDS Naturals, Integers, Sequences, FiniteSets, TLC

\* F applied to the value v: names an intermediate result (a `let` of the code)
\* that is computed once and used several times.
With(v, F(_)) == F(v)

(***************************************************************************)
(* Exact natural-number arithmetic on base-256 digit sequences.            *)
(***************************************************************************)
RECURSIVE BigNorm(_)
BigNorm(s) ==
  IF s = <<>> THEN <<>>
  ELSE IF s[Len(s)] = 0 THEN BigNorm(SubSeq(s, 1, Len(s) - 1)) ELSE s

RECURSIVE BigFromInt(_)
BigFromInt(n) ==
  IF n = 0 THEN <<>> ELSE <<n % 256>> \o BigFromInt(n \div 256)

BigDigit(a, i) == IF i <= Len(a) THEN a[i] ELSE 0

\* -1, 0, 1 as a is less than, equal to, greater than b.
RECURSIVE BigCmpFrom(_, _, _)
BigCmpFrom(a, b, i) ==
  IF i = 0 THEN 0
  ELSE IF a[i] < b[i] THEN -1
  ELSE IF a[i] > b[i] THEN 1
  ELSE BigCmpFrom(a, b, i - 1)

BigCmp(a, b) ==
  IF Len(a) < Len(b) THEN -1
  ELSE IF Len(a) > Len(b) THEN 1
  ELSE BigCmpFrom(a, b, Len(a))

BigLt(a, b) == BigCmp(a, b) = -1
BigLe(a, b) == BigCmp(a, b) <= 0

BigMaxLen(a, b) == IF Len(a) > Len(b) THEN Len(a) ELSE Len(b)

RECURSIVE BigAddFrom(_, _, _, _)
BigAddFrom(a, b, i, carry) ==
  IF i > BigMaxLen(a, b)
  THEN (IF carry = 0 THEN <<>> ELSE <<carry>>)
  ELSE LET s == BigDigit(a, i) + BigDigit(b, i) + carry
       IN <<s % 256>> \o BigAddFrom(a, b, i + 1, s \div 256)

BigAdd(a, b) == BigAddFrom(a, b, 1, 0)

\* a - b for a >= b.
RECURSIVE BigSubFrom(_, _, _, _)
BigSubFrom(a, b, i, borrow) ==
  IF i > Len(a) THEN <<>>
  ELSE LET d == a[i] - BigDigit(b, i) - borrow
       IN IF d < 0 THEN <<d + 256>> \o BigSubFrom(a, b, i + 1, 1)
                   ELSE <<d>> \o BigSubFrom(a, b, i + 1, 0)

BigSub(a, b) == BigNorm(BigSubFrom(a, b, 1, 0))

\* a * k for an integer 0 <= k < 2^23.
RECURSIVE BigMulSmallFrom(_, _, _, _)
BigMulSmallFrom(a, k, i, carry) ==
  IF i > Len(a) THEN BigFromInt(carry)
  ELSE LET p == a[i] * k + carry
       IN <<p % 256>> \o BigMulSmallFrom(a, k, i + 1, p \div 256)

BigMulSmall(a, k) == BigNorm(BigMulSmallFrom(a, k, 1, 0))

\* floor(a / k) for an integer 0 < k < 2^23: digits from the top, with remainder;
\* acc holds the quotient digits found so far.
RECURSIVE BigDivSmallFrom(_, _, _, _, _)
BigDivSmallFrom(a, k, i, rem, acc) ==
  IF i = 0 THEN acc
  ELSE LET cur == rem * 256 + a[i]
       IN IF cur < k
          THEN BigDivSmallFrom(a, k, i - 1, cur, <<0>> \o acc)
          ELSE BigDivSmallFrom(a, k, i - 1, cur % k, <<cur \div k>> \o acc)

BigDivSmall(a, k) == BigNorm(BigDivSmallFrom(a, k, Len(a), 0, <<>>))

\* a * 256^n and floor(a / 256^n).
BigShlBytes(a, n) == IF a = <<>> THEN <<>> ELSE [i \in 1..n |-> 0] \o a
BigShrBytes(a, n) == IF n >= Len(a) THEN <<>> ELSE SubSeq(a, n + 1, Len(a))

\* a mod 256^n.
BigTruncBytes(a, n) == IF Len(a) <= n THEN a ELSE BigNorm(SubSeq(a, 1, n))

\* a * m for an integer 0 <= m < 2^32, given as m = hi * 2^16 + lo.
BigMulU32(a, m) ==
  BigAdd(BigShlBytes(BigMulSmall(a, m \div 65536), 2), BigMulSmall(a, m % 65536))

\* The largest q in lo..hi with q * b <= r (q = lo when none is larger).
RECURSIVE BigQuotDigit(_, _, _, _)
BigQuotDigit(r, b, lo, hi) ==
  IF lo = hi THEN lo
  ELSE LET mid == (lo + hi + 1) \div 2
       IN IF BigLe(BigMulSmall(b, mid), r)
          THEN BigQuotDigit(r, b, mid, hi)
          ELSE BigQuotDigit(r, b, lo, mid - 1)

\* floor(a / b) for b > 0: long division, digit i of a brought down at each step;
\* acc holds the quotient digits found so far.
RECURSIVE BigDivFrom(_, _, _, _, _)
BigDivFrom(a, b, i, rem, acc) ==
  IF i = 0 THEN acc
  ELSE With(BigNorm(<<a[i]>> \o rem), LAMBDA cur :
       With(IF BigLt(cur, b) THEN 0 ELSE BigQuotDigit(cur, b, 1, 255), LAMBDA q :
         IF q = 0
         THEN BigDivFrom(a, b, i - 1, cur, <<0>> \o acc)
         ELSE BigDivFrom(a, b, i - 1, BigSub(cur, BigMulSmall(b, q)), <<q>> \o acc)))

BigDiv(a, b) == BigNorm(BigDivFrom(a, b, Len(a), <<>>, <<>>))

(***************************************************************************)
(* Program constants.                                                      *)
(***************************************************************************)
MAX_SCRIPT_SIZE == 10000
MAX_TX_INOUTS == 10000
MAX_FUTURE_DRIFT_SECS == 7200
TARGET_BLOCK_TIME_SECS == 600
DIFFICULTY_WINDOW == 10
INITIAL_BITS == 545259519          \* 0x207fffff
GENESIS_TIME == 1769936400
GENESIS_BITS == 545259519          \* 0x207fffff
GENESIS_NONCE == 2
GENESIS_MERKLE_ROOT == <<0>>
MANTISSA_MOD == 8388608            \* bits & 0x007f_ffff is bits % 2^23
EXPONENT_DIV == 16777216           \* bits >> 24 is bits \div 2^24
U64_BYTES == 8
U128_BYTES == 16
U64_MAX == [i \in 1..U64_BYTES |-> 255]
U128_MAX == [i \in 1..U128_BYTES |-> 255]

(***************************************************************************)
(* Digests.  SHA-256d is taken to be collision free: a digest is modelled  *)
(* by the tuple of the fields that are hashed, so two digests are equal    *)
(* exactly when the hashed bytes are.  The tuples of different kinds of    *)
(* digest have different lengths: <<>> is the all-zero digest [0u8; 32],   *)
(* <<n>> the test digest [n; 32], a 4-tuple a txid_v2, a 5-tuple a         *)
(* txid_v1, a 2-tuple an inner merkle node and a 6-tuple a header hash.    *)
(***************************************************************************)
ZERO_HASH == <<>>

Sha256d(fields) == fields

ScriptLen(s) == Len(s)

\* Transaction::validate
validate(tx) ==
  IF Len(tx.vin) > MAX_TX_INOUTS THEN "TooManyInOut"
  ELSE IF Len(tx.vout) > MAX_TX_INOUTS THEN "TooManyInOut"
  ELSE IF \E i \in 1..Len(tx.vin) : ScriptLen(tx.vin[i].script_sig) > MAX_SCRIPT_SIZE
       THEN "TooLargeScript"
  ELSE IF \E i \in 1..Len(tx.vout) : ScriptLen(tx.vout[i].script_pubkey) > MAX_SCRIPT_SIZE
       THEN "TooLargeScript"
  ELSE "Ok"

\* u64::checked_add: the sum, or Overflow when it does not fit 64 bits.
checked_add_u64(a, b) ==
  With(BigAdd(a, b), LAMBDA s :
    IF BigLe(s, U64_MAX) THEN [ok |-> TRUE, val |-> s, err |-> "Ok"]
    ELSE [ok |-> FALSE, val |-> <<>>, err |-> "Overflow"])

\* u64::saturating_add
saturating_add_u64(a, b) ==
  With(BigAdd(a, b), LAMBDA s : IF BigLe(s, U64_MAX) THEN s ELSE U64_MAX)

\* Transaction::sum_outputs: the loop from output i on, with the running sum.
RECURSIVE sum_outputs_from(_, _, _)
sum_outputs_from(tx, i, sum) ==
  IF i > Len(tx.vout) THEN [ok |-> TRUE, val |-> sum, err |-> "Ok"]
  ELSE With(checked_add_u64(sum, tx.vout[i].value), LAMBDA r :
         IF r.ok THEN sum_outputs_from(tx, i + 1, r.val) ELSE r)

sum_outputs(tx) == sum_outputs_from(tx, 1, <<>>)

\* Transaction::sum_inputs: the loop from input i on, with the running sum.
RECURSIVE sum_inputs_from(_, _, _, _)
sum_inputs_from(tx, map, i, sum) ==
  IF i > Len(tx.vin) THEN [ok |-> TRUE, val |-> sum, err |-> "Ok"]
  ELSE IF tx.vin[i].prevout \notin DOMAIN map
       THEN [ok |-> FALSE, val |-> <<>>, err |-> "MissingUtxo"]
  ELSE With(checked_add_u64(sum, map[tx.vin[i].prevout].value), LAMBDA r :
         IF r.ok THEN sum_inputs_from(tx, map, i + 1, r.val) ELSE r)

sum_inputs(tx, map) == sum_inputs_from(tx, map, 1, <<>>)

\* Variant of the duplicate-input scan that finds nothing.
no_duplicate_scan(tx) == FALSE

\* The duplicate-input scan of validate_value_conservation: some input repeats
\* an earlier one.
HasDuplicateInput(tx) ==
  \E i, j \in 1..Len(tx.vin) : i < j /\ tx.vin[i].prevout = tx.vin[j].prevout

\* Transaction::validate_value_conservation: the fee, or the first error.
validate_value_conservation(tx, map) ==
  IF HasDuplicateInput(tx) THEN [ok |-> FALSE, val |-> <<>>, err |-> "DuplicateInput"]
  ELSE With(sum_inputs(tx, map), LAMBDA ins :
    IF ~ins.ok THEN ins
    ELSE With(sum_outputs(tx), LAMBDA outs :
      IF ~outs.ok THEN outs
      ELSE IF BigLt(ins.val, outs.val)
           THEN [ok |-> FALSE, val |-> <<>>, err |-> "ValueNotConserved"]
           ELSE [ok |-> TRUE, val |-> BigSub(ins.val, outs.val), err |-> "Ok"]))

\* Transaction::canonical_bytes_v2, as the sequence of the encoded fields.
canonical_bytes_v2(tx) ==
  <<tx.version,
    [i \in 1..Len(tx.vin) |->
       <<tx.vin[i].prevout.txid, tx.vin[i].prevout.vout,
         tx.vin[i].script_sig, tx.vin[i].sequence>>],
    [i \in 1..Len(tx.vout) |-> <<tx.vout[i].value, tx.vout[i].script_pubkey>>],
    tx.lock_time>>

\* Transaction::txid_v2
txid_v2(tx) == Sha256d(canonical_bytes_v2(tx))

\* Transaction::make_outpoints_v2
make_outpoints(tx) ==
  [i \in 1..Len(tx.vout) |-> [txid |-> txid_v2(tx), vout |-> i - 1]]

(***************************************************************************)
(* InMemoryUtxoSet: the map OutPoint -> TxOut as a function.               *)
(***************************************************************************)
EmptyMap == <<>>
\* HashMap::insert, HashMap::remove (f @@ g is f extended by g where f is not
\* defined).
MapInsert(map, k, v) == (k :> v) @@ map
MapRemove(map, k) == [o \in DOMAIN map \ {k} |-> map[o]] @@ EmptyMap

\* Variant of the first loop of rollback that leaves the inserted outpoints.
remove_inserted_none(map, inserted, i) == map

\* InMemoryUtxoSet::rollback, first loop: remove every inserted outpoint.
RECURSIVE remove_inserted(_, _, _)
remove_inserted(map, inserted, i) ==
  IF i > Len(inserted) THEN map
  ELSE remove_inserted(MapRemove(map, inserted[i]), inserted, i + 1)

\* InMemoryUtxoSet::rollback, second loop: re-insert every removed entry.
RECURSIVE reinsert_removed(_, _, _)
reinsert_removed(map, removed, i) ==
  IF i > Len(removed) THEN map
  ELSE reinsert_removed(MapInsert(map, removed[i][1], removed[i][2]), removed, i + 1)

\* InMemoryUtxoSet::rollback
rollback(map, receipt) ==
  reinsert_removed(remove_inserted(map, receipt.inserted, 1), receipt.removed, 1)

\* apply_tx, the rollback of prior removals: re-insert removed[i], ..., removed[1].
RECURSIVE reinsert_rev(_, _, _)
reinsert_rev(map, removed, i) ==
  IF i = 0 THEN map
  ELSE reinsert_rev(MapInsert(map, removed[i][1], removed[i][2]), removed, i - 1)

NoReceipt == [removed |-> <<>>, inserted |-> <<>>]

\* apply_tx, the removal loop from input i on.
RECURSIVE remove_inputs(_, _, _, _)
remove_inputs(map, tx, i, removed) ==
  IF i > Len(tx.vin) THEN [ok |-> TRUE, err |-> "Ok", map |-> map, removed |-> removed]
  ELSE LET op == tx.vin[i].prevout IN
    IF op \in DOMAIN map
    THEN remove_inputs(MapRemove(map, op), tx, i + 1, Append(removed, <<op, map[op]>>))
    ELSE [ok |-> FALSE, err |-> "MissingUtxo",
          map |-> reinsert_rev(map, removed, Len(removed)), removed |-> removed]

\* Variant of the insertion loop that returns on a collision without undoing.
RECURSIVE insert_outputs_no_undo(_, _, _, _, _)
insert_outputs_no_undo(map, tx, i, removed, inserted) ==
  IF i > Len(tx.vout)
  THEN [ok |-> TRUE, err |-> "Ok", map |-> map, undone |-> 0,
        receipt |-> [removed |-> removed, inserted |-> inserted]]
  ELSE LET op == make_outpoints(tx)[i] IN
    IF op \in DOMAIN map
    THEN [ok |-> FALSE, err |-> "DuplicateOutput", map |-> map,
          undone |-> Len(removed) + Len(inserted), receipt |-> NoReceipt]
    ELSE insert_outputs_no_undo(MapInsert(map, op, tx.vout[i]), tx, i + 1, removed,
                                Append(inserted, op))

\* apply_tx, the insertion loop from output i on.
RECURSIVE insert_outputs(_, _, _, _, _)
insert_outputs(map, tx, i, removed, inserted) ==
  IF i > Len(tx.vout)
  THEN [ok |-> TRUE, err |-> "Ok", map |-> map, undone |-> 0,
        receipt |-> [removed |-> removed, inserted |-> inserted]]
  ELSE LET op == make_outpoints(tx)[i] IN
    IF op \in DOMAIN map
    THEN [ok |-> FALSE, err |-> "DuplicateOutput",
          map |-> rollback(map, [removed |-> removed, inserted |-> inserted]),
          undone |-> Len(removed) + Len(inserted), receipt |-> NoReceipt]
    ELSE insert_outputs(MapInsert(map, op, tx.vout[i]), tx, i + 1, removed,
                        Append(inserted, op))

\* InMemoryUtxoSet::apply_tx: [ok, err, map (the set after the call), receipt,
\* undone (the number of changes the call made and took back before failing)].
apply_tx(map, tx) ==
  IF validate(tx) # "Ok"
  THEN [ok |-> FALSE, err |-> validate(tx), map |-> map, undone |-> 0,
        receipt |-> NoReceipt]
  ELSE With(validate_value_conservation(tx, map), LAMBDA fee :
    IF ~fee.ok
    THEN [ok |-> FALSE, err |-> fee.err, map |-> map, undone |-> 0,
          receipt |-> NoReceipt]
    ELSE With(remove_inputs(map, tx, 1, <<>>), LAMBDA rem :
      IF ~rem.ok
      THEN [ok |-> FALSE, err |-> rem.err, map |-> rem.map,
            undone |-> Len(rem.removed), receipt |-> NoReceipt]
      ELSE insert_outputs(rem.map, tx, 1, rem.removed, <<>>)))

(***************************************************************************)
(* Compact difficulty encoding, work and proof of work.                    *)
(***************************************************************************)
\* The value of a Big number of at most three bytes.
BigToInt(a) == BigDigit(a, 1) + 256 * BigDigit(a, 2) + 65536 * BigDigit(a, 3)

Pow256(n) == IF n = 0 THEN 1 ELSE IF n = 1 THEN 256 ELSE IF n = 2 THEN 65536 ELSE 16777216

bits_exponent(bits) == bits \div EXPONENT_DIV
bits_mantissa(bits) == bits % MANTISSA_MOD

\* bits_to_target_u128: [ok, val]; the shift of a u128 drops the bits above 2^128.
bits_to_target_u128(bits) ==
  IF bits = 0 \/ bits_mantissa(bits) = 0 THEN [ok |-> FALSE, val |-> <<>>]
  ELSE LET exponent == bits_exponent(bits)
           mantissa == bits_mantissa(bits)
       IN IF exponent <= 3
          THEN [ok |-> TRUE, val |-> BigFromInt(mantissa \div Pow256(3 - exponent))]
          ELSE IF 8 * (exponent - 3) >= 128
          THEN [ok |-> TRUE, val |-> U128_MAX]
          ELSE [ok |-> TRUE,
                val |-> BigTruncBytes(BigShlBytes(BigFromInt(mantissa), exponent - 3),
                                      U128_BYTES)]

saturating_add_u128(a, b) ==
  With(BigAdd(a, b), LAMBDA s : IF Len(s) > U128_BYTES THEN U128_MAX ELSE s)

\* 1u128 << 120
WORK_UNIT == BigShlBytes(<<1>>, 15)

\* work_from_bits: [ok, val]
work_from_bits(bits) ==
  With(bits_to_target_u128(bits), LAMBDA t :
    IF ~t.ok THEN [ok |-> FALSE, val |-> <<>>]
    ELSE IF t.val = <<>> THEN [ok |-> TRUE, val |-> WORK_UNIT]
    ELSE [ok |-> TRUE, val |-> BigDiv(WORK_UNIT, saturating_add_u128(t.val, <<1>>))])

\* target_to_bits: the exponent is the number of bytes of the target.
target_to_bits(target) ==
  IF target = <<>> THEN 0
  ELSE LET exponent == Len(target)
           shift == IF exponent > 3 THEN exponent - 3 ELSE 0
       IN exponent * EXPONENT_DIV + (BigToInt(BigTruncBytes(BigShrBytes(target, shift), 3)) % MANTISSA_MOD)

\* consensus::bits_to_target: the 256-bit target as a number, [ok, val].
bits_to_target(bits) ==
  IF bits = 0 \/ bits_mantissa(bits) = 0 THEN [ok |-> FALSE, val |-> <<>>]
  ELSE LET exponent == bits_exponent(bits)
           mantissa == bits_mantissa(bits)
       IN IF exponent <= 3
          THEN [ok |-> TRUE, val |-> BigFromInt(mantissa \div Pow256(3 - exponent))]
          ELSE IF exponent > 32
          THEN [ok |-> FALSE, val |-> <<>>]
          ELSE [ok |-> TRUE, val |-> BigShlBytes(BigFromInt(mantissa), exponent - 3)]

\* consensus::header_hash: the digest of the six header fields.
header_hash(h) ==
  Sha256d(<<h.version, h.prev_block_hash, h.merkle_root, h.time, h.bits, h.nonce>>)

\* The digest of a header read as a 256-bit number (what hash_leq compares).
\* SHA-256d is not computed; the number stands for the leading bytes of the
\* digest and is fixed by the nonce: nonce 0 gives a digest below every
\* target, nonce 1 a digest above every target, any other nonce a digest that
\* is just below the target of INITIAL_BITS (as the built-in genesis header).
header_hash_value(h) ==
  IF h.nonce = 0 THEN <<>>
  ELSE IF h.nonce = 1 THEN [i \in 1..32 |-> 255]
  ELSE BigShlBytes(BigFromInt(bits_mantissa(INITIAL_BITS)), 29)

\* consensus::hash_leq
hash_leq(a, b) == BigLe(a, b)

\* consensus::check_pow: [ok (no error), pass]
check_pow(h) ==
  With(bits_to_target(h.bits), LAMBDA t :
    IF ~t.ok THEN [ok |-> FALSE, pass |-> FALSE]
    ELSE [ok |-> TRUE, pass |-> hash_leq(header_hash_value(h), t.val)])


(***************************************************************************)
(* ChainState: the header index, as a record [headers, heights, work, tip] *)
(* of three maps keyed by header hash and the hash of the best tip.        *)
(***************************************************************************)
None == <<>>
Some(x) == <<x>>

HeaderOf(prev, merkle, time, bits, nonce) ==
  [version |-> 1, prev_block_hash |-> prev, merkle_root |-> merkle,
   time |-> time, bits |-> bits, nonce |-> nonce]

\* The built-in genesis header of ChainState::with_genesis.
GenesisHeader ==
  HeaderOf(ZERO_HASH, GENESIS_MERKLE_ROOT, GENESIS_TIME, GENESIS_BITS, GENESIS_NONCE)
GenesisHash == header_hash(GenesisHeader)

\* ChainState::with_genesis
with_genesis ==
  [headers |-> (GenesisHash :> GenesisHeader),
   heights |-> (GenesisHash :> 0),
   work    |-> (GenesisHash :> <<>>),
   tip     |-> GenesisHash]

saturating_mul_u128(a, m) ==
  With(BigMulU32(a, m), LAMBDA p : IF Len(p) > U128_BYTES THEN U128_MAX ELSE p)

\* The headers that heights.iter().find(|h| h == window_start_height) may return:
\* the iteration order of the HashMap is not fixed, any of them may come first.
WindowStarts(c, height) ==
  {ha \in DOMAIN c.heights : c.heights[ha] = height - DIFFICULTY_WINDOW}

\* What find may return for a child of `prev` (None when nothing is at the
\* window start height).
StartChoices(c, prev) ==
  LET starts == IF prev \in DOMAIN c.heights
                THEN WindowStarts(c, c.heights[prev] + 1) ELSE {}
  IN IF starts = {} THEN {None} ELSE {Some(ha) : ha \in starts}

\* ChainState::expected_bits, with `start` the entry that find returned
\* (None when there is none): [ok, val].
expected_bits(c, prev, height, start) ==
  IF prev = None THEN [ok |-> TRUE, val |-> INITIAL_BITS]
  ELSE IF height = 0 \/ height % DIFFICULTY_WINDOW # 0
  THEN [ok |-> TRUE, val |-> prev[1].bits]
  ELSE IF start = None \/ start[1] \notin DOMAIN c.headers
  THEN [ok |-> FALSE, val |-> 0]
  ELSE LET start_header == c.headers[start[1]]
           actual_time == IF prev[1].time > start_header.time
                          THEN prev[1].time - start_header.time ELSE 0
           expected_time == TARGET_BLOCK_TIME_SECS * DIFFICULTY_WINDOW
       IN With(bits_to_target_u128(prev[1].bits), LAMBDA prev_target :
            IF ~prev_target.ok THEN [ok |-> FALSE, val |-> 0]
            ELSE With(BigDivSmall(saturating_mul_u128(prev_target.val, actual_time),
                                  expected_time), LAMBDA scaled :
                   [ok |-> TRUE,
                    val |-> target_to_bits(IF BigLt(prev_target.val, scaled)
                                           THEN prev_target.val ELSE scaled)]))

\* validate_header_rules, with `now` the reading of the system clock: "Ok" or
\* the error.
validate_header_rules(header, prev, no_pow_check, expected, now) ==
  IF ~no_pow_check /\ ~check_pow(header).ok THEN "invalid bits"
  ELSE IF ~no_pow_check /\ ~check_pow(header).pass THEN "invalid PoW"
  ELSE IF header.bits = 0 THEN "invalid bits"
  ELSE IF prev # None /\ header.time < prev[1].time THEN "time too old"
  ELSE IF prev # None /\ header.bits # expected THEN "unexpected difficulty bits"
  ELSE IF header.time > now + MAX_FUTURE_DRIFT_SECS THEN "time too far in future"
  ELSE "Ok"

\* Variant of the insertion that moves the tip to the new header on a full tie.
insert_header_tie_moves(c, header, hash, height, work) ==
  LET tip_height == IF c.tip \in DOMAIN c.heights THEN c.heights[c.tip] ELSE 0
      tip_work == IF c.tip \in DOMAIN c.work THEN c.work[c.tip] ELSE <<>>
  IN [headers |-> MapInsert(c.headers, hash, header),
      heights |-> MapInsert(c.heights, hash, height),
      work    |-> MapInsert(c.work, hash, work),
      tip     |-> IF BigLt(tip_work, work) \/ (work = tip_work /\ height >= tip_height)
                  THEN hash ELSE c.tip]

\* Variant of the insertion that always moves the tip to the new header.
insert_header_latest(c, header, hash, height, work) ==
  [headers |-> MapInsert(c.headers, hash, header),
   heights |-> MapInsert(c.heights, hash, height),
   work    |-> MapInsert(c.work, hash, work),
   tip     |-> hash]

\* Variant of add_header that stores a header at the height of its parent.
add_header_at_flat(c, header, no_pow_check, now, start, height, prev_work, prev) ==
  [ok |-> TRUE, err |-> "Ok",
   chain |-> [headers |-> MapInsert(c.headers, header_hash(header), header),
              heights |-> MapInsert(c.heights, header_hash(header),
                                    IF height > 0 THEN height - 1 ELSE 0),
              work    |-> MapInsert(c.work, header_hash(header), prev_work),
              tip     |-> c.tip]]

\* add_header, the insertion of a validated header and the tip update.
insert_header(c, header, hash, height, work) ==
  LET tip_height == IF c.tip \in DOMAIN c.heights THEN c.heights[c.tip] ELSE 0
      tip_work == IF c.tip \in DOMAIN c.work THEN c.work[c.tip] ELSE <<>>
  IN [headers |-> MapInsert(c.headers, hash, header),
      heights |-> MapInsert(c.heights, hash, height),
      work    |-> MapInsert(c.work, hash, work),
      tip     |-> IF BigLt(tip_work, work) \/ (work = tip_work /\ height > tip_height)
                  THEN hash ELSE c.tip]

\* add_header from the point where the position of the header is known.
add_header_at(c, header, no_pow_check, now, start, height, prev_work, prev) ==
  With(expected_bits(c, prev, height, start), LAMBDA expected :
    IF ~expected.ok THEN [ok |-> FALSE, err |-> "missing window start", chain |-> c]
    ELSE With(validate_header_rules(header, prev, no_pow_check, expected.val, now),
              LAMBDA rules :
      IF rules # "Ok" THEN [ok |-> FALSE, err |-> rules, chain |-> c]
      ELSE With(work_from_bits(header.bits), LAMBDA w :
        IF ~w.ok THEN [ok |-> FALSE, err |-> "invalid bits", chain |-> c]
        ELSE [ok |-> TRUE, err |-> "Ok",
              chain |-> With(saturating_add_u128(prev_work, w.val), LAMBDA work :
                          With(header_hash(header), LAMBDA hash :
                            insert_header(c, header, hash, height, work)))])))

\* ChainState::add_header: [ok, err, chain (the state after the call)].
add_header(c, header, no_pow_check, now, start) ==
  LET prev == header.prev_block_hash IN
  IF header_hash(header) \in DOMAIN c.headers THEN [ok |-> TRUE, err |-> "Ok", chain |-> c]
  ELSE IF prev \in DOMAIN c.heights
  THEN IF prev \notin DOMAIN c.headers
       THEN [ok |-> FALSE, err |-> "missing prev header", chain |-> c]
       ELSE add_header_at(c, header, no_pow_check, now, start, c.heights[prev] + 1,
                          IF prev \in DOMAIN c.work THEN c.work[prev] ELSE <<>>,
                          Some(c.headers[prev]))
  ELSE IF prev = ZERO_HASH
  THEN add_header_at(c, header, no_pow_check, now, start, 0, <<>>, None)
  ELSE [ok |-> FALSE, err |-> "unknown prev header", chain |-> c]

\* headers_after, the loop from current_height on with the headers pushed so
\* far: heights.iter().find returns any entry of the height.
RECURSIVE headers_after_from(_, _, _, _)
headers_after_from(c, current_height, limit, out) ==
  IF Len(out) >= limit THEN {out}
  ELSE With({ha \in DOMAIN c.heights : c.heights[ha] = current_height}, LAMBDA found :
         IF found = {} THEN {out}
         ELSE UNION {headers_after_from(c, current_height + 1, limit,
                                        IF next_hash \in DOMAIN c.headers
                                        THEN Append(out, c.headers[next_hash]) ELSE out) :
                       next_hash \in found})

\* The first hash of a locator that is a stored header, from position i on.
RECURSIVE locator_start(_, _, _)
locator_start(c, locator, i) ==
  IF i > Len(locator) THEN None
  ELSE IF locator[i] \in DOMAIN c.headers THEN Some(locator[i])
  ELSE locator_start(c, locator, i + 1)

\* ChainState::headers_after: the lists it may return.
headers_after(c, locator, limit) ==
  With(locator_start(c, locator, 1), LAMBDA start :
    IF start = None \/ start[1] \notin DOMAIN c.heights THEN {<<>>}
    ELSE headers_after_from(c, c.heights[start[1]] + 1, limit, <<>>))

(***************************************************************************)
(* Block validator: merkle root, subsidy, coinbase and block application.  *)
(***************************************************************************)
\* 5_000_000_000 in base-256 digits (0x01_2A_05_F2_00).
INITIAL_SUBSIDY == <<0, 242, 5, 42, 1>>
HALVING_INTERVAL == 210000
\* The number of halvings from which the subsidy is zero.
MAX_HALVINGS == 64

\* consensus::merkle_root, one pass of the inner loop: the level above `level`,
\* from position i on (an odd last entry is paired with itself).
RECURSIVE merkle_next(_, _, _)
merkle_next(level, i, next) ==
  IF i > Len(level) THEN next
  ELSE merkle_next(level, i + 2,
         Append(next, Sha256d(<<level[i],
                                IF i + 1 <= Len(level) THEN level[i + 1] ELSE level[i]>>)))

\* consensus::merkle_root, the outer loop.
RECURSIVE merkle_loop(_)
merkle_loop(level) ==
  IF Len(level) <= 1 THEN level[1] ELSE merkle_loop(merkle_next(level, 1, <<>>))

\* consensus::merkle_root
merkle_root(txids) == IF txids = <<>> THEN ZERO_HASH ELSE merkle_loop(txids)

\* The txid_v2 of every transaction of a list.
txids_v2(txs) == [i \in 1..Len(txs) |-> txid_v2(txs[i])]

\* Block::new: the block with the merkle root of its transactions.
BlockOf(prev, time, bits, nonce, txs) ==
  [header |-> HeaderOf(prev, merkle_root(txids_v2(txs)), time, bits, nonce), txs |-> txs]

\* u64 >> n
RECURSIVE shr_u64(_, _)
shr_u64(a, n) == IF n = 0 THEN a ELSE shr_u64(BigDivSmall(a, 2), n - 1)

\* block_subsidy
block_subsidy(height) ==
  IF height \div HALVING_INTERVAL >= MAX_HALVINGS THEN <<>>
  ELSE shr_u64(INITIAL_SUBSIDY, height \div HALVING_INTERVAL)

\* apply_coinbase, the loop from output i on: an existing outpoint ends it with
\* the outputs inserted so far left in the set.
RECURSIVE insert_coinbase(_, _, _, _)
insert_coinbase(map, tx, i, inserted) ==
  IF i > Len(tx.vout)
  THEN [ok |-> TRUE, err |-> "Ok", map |-> map,
        receipt |-> [removed |-> <<>>, inserted |-> inserted]]
  ELSE LET op == make_outpoints(tx)[i] IN
    IF op \in DOMAIN map
    THEN [ok |-> FALSE, err |-> "coinbase output exists", map |-> map,
          receipt |-> NoReceipt]
    ELSE insert_coinbase(MapInsert(map, op, tx.vout[i]), tx, i + 1, Append(inserted, op))

\* apply_coinbase (p2p): [ok, err, map (the set after the call), receipt].
apply_coinbase(map, tx) ==
  IF validate(tx) # "Ok"
  THEN [ok |-> FALSE, err |-> validate(tx), map |-> map, receipt |-> NoReceipt]
  ELSE insert_coinbase(map, tx, 1, <<>>)

\* An error return of apply_block_with_undo that leaves `map` behind.
BlockErr(err, map) == [ok |-> FALSE, err |-> err, map |-> map, fees |-> <<>>, receipts |-> <<>>]

\* apply_block_with_undo, the loop over the transactions from the i-th on.
RECURSIVE apply_block_txs(_, _, _, _, _)
apply_block_txs(txs, map, i, total_fees, receipts) ==
  IF i > Len(txs)
  THEN [ok |-> TRUE, err |-> "Ok", map |-> map, fees |-> total_fees, receipts |-> receipts]
  ELSE IF i = 1
  THEN IF txs[1].vin # <<>> THEN BlockErr("coinbase must have no inputs", map)
       ELSE With(apply_coinbase(map, txs[1]), LAMBDA r :
              IF ~r.ok THEN BlockErr(r.err, r.map)
              ELSE apply_block_txs(txs, r.map, 2, total_fees, Append(receipts, r.receipt)))
  ELSE With(validate_value_conservation(txs[i], map), LAMBDA fee :
         IF ~fee.ok THEN BlockErr(fee.err, map)
         ELSE With(apply_tx(map, txs[i]), LAMBDA r :
                IF ~r.ok THEN BlockErr(r.err, r.map)
                ELSE apply_block_txs(txs, r.map, i + 1,
                                     saturating_add_u64(total_fees, fee.val),
                                     Append(receipts, r.receipt))))

\* The error of the first transaction that txid_v2 rejects ("Ok" when none).
RECURSIVE txids_err(_, _)
txids_err(txs, i) ==
  IF i > Len(txs) THEN "Ok"
  ELSE IF validate(txs[i]) # "Ok" THEN validate(txs[i])
  ELSE txids_err(txs, i + 1)

\* Variant of apply_block_with_undo without the limit on what the coinbase
\* pays out.
apply_block_unbounded(block, map, skip_pow, subsidy) ==
  IF ~skip_pow /\ ~check_pow(block.header).ok THEN BlockErr("invalid bits", map)
  ELSE IF ~skip_pow /\ ~check_pow(block.header).pass THEN BlockErr("invalid PoW", map)
  ELSE IF block.txs = <<>> THEN BlockErr("empty block", map)
  ELSE IF txids_err(block.txs, 1) # "Ok" THEN BlockErr(txids_err(block.txs, 1), map)
  ELSE IF merkle_root(txids_v2(block.txs)) # block.header.merkle_root
  THEN BlockErr("merkle root mismatch", map)
  ELSE apply_block_txs(block.txs, map, 1, <<>>, <<>>)

\* apply_block_with_undo: [ok, err, map (the set after the call), fees,
\* receipts]. The set is changed in place: an error leaves what was applied
\* before it.
apply_block_with_undo(block, map, skip_pow, subsidy) ==
  IF ~skip_pow /\ ~check_pow(block.header).ok THEN BlockErr("invalid bits", map)
  ELSE IF ~skip_pow /\ ~check_pow(block.header).pass THEN BlockErr("invalid PoW", map)
  ELSE IF block.txs = <<>> THEN BlockErr("empty block", map)
  ELSE IF txids_err(block.txs, 1) # "Ok" THEN BlockErr(txids_err(block.txs, 1), map)
  ELSE IF merkle_root(txids_v2(block.txs)) # block.header.merkle_root
  THEN BlockErr("merkle root mismatch", map)
  ELSE With(apply_block_txs(block.txs, map, 1, <<>>, <<>>), LAMBDA r :
    IF ~r.ok THEN r
    ELSE With(sum_outputs(block.txs[1]), LAMBDA out_sum :
      IF ~out_sum.ok THEN BlockErr(out_sum.err, r.map)
      ELSE IF BigLt(saturating_add_u64(subsidy, r.fees), out_sum.val)
      THEN BlockErr("coinbase exceeds subsidy+fees", r.map)
      ELSE r))

(***************************************************************************)
(* Reorg engine: AppliedState [tip, undo], BlockStore, reorg_to_tip.       *)
(***************************************************************************)
\* AppliedState::new
AppliedState(tip) == [tip |-> tip, undo |-> EmptyMap]

PathErr(err) == [ok |-> FALSE, err |-> err, val |-> <<>>]

\* common_ancestor, one of the first two loops: a after n steps to the parent.
RECURSIVE walk_back(_, _, _)
walk_back(c, a, n) ==
  IF n = 0 THEN [ok |-> TRUE, err |-> "Ok", val |-> a]
  ELSE IF a \notin DOMAIN c.headers THEN PathErr("missing header")
  ELSE walk_back(c, c.headers[a].prev_block_hash, n - 1)

\* common_ancestor, the third loop: both step to the parent until they meet.
RECURSIVE walk_both(_, _, _)
walk_both(c, a, b) ==
  IF a = b THEN [ok |-> TRUE, err |-> "Ok", val |-> a]
  ELSE IF a \notin DOMAIN c.headers \/ b \notin DOMAIN c.headers
  THEN PathErr("missing header")
  ELSE walk_both(c, c.headers[a].prev_block_hash, c.headers[b].prev_block_hash)

\* common_ancestor: [ok, err, val]
common_ancestor(c, a, b) ==
  IF a \notin DOMAIN c.heights \/ b \notin DOMAIN c.heights THEN PathErr("missing height")
  ELSE LET ha == c.heights[a]
           hb == c.heights[b]
       IN With(walk_back(c, a, IF ha > hb THEN ha - hb ELSE 0), LAMBDA ra :
            IF ~ra.ok THEN ra
            ELSE With(walk_back(c, b, IF hb > ha THEN hb - ha ELSE 0), LAMBDA rb :
                   IF ~rb.ok THEN rb ELSE walk_both(c, ra.val, rb.val)))

\* path_to_ancestor, the loop with the hashes pushed so far.
RECURSIVE path_to_ancestor_from(_, _, _, _)
path_to_ancestor_from(c, from, ancestor, out) ==
  IF from = ancestor THEN [ok |-> TRUE, err |-> "Ok", val |-> out]
  ELSE IF from \notin DOMAIN c.headers THEN PathErr("missing header")
  ELSE path_to_ancestor_from(c, c.headers[from].prev_block_hash, ancestor,
                             Append(out, from))

\* path_to_ancestor: from the tip downward, the ancestor excluded.
path_to_ancestor(c, from, ancestor) == path_to_ancestor_from(c, from, ancestor, <<>>)

Reverse(s) == [i \in 1..Len(s) |-> s[Len(s) + 1 - i]]

\* path_from_ancestor: upward to the tip, the ancestor excluded.
path_from_ancestor(c, ancestor, to) ==
  With(path_to_ancestor_from(c, to, ancestor, <<>>), LAMBDA r :
    IF ~r.ok THEN r ELSE [r EXCEPT !.val = Reverse(r.val)])

\* Variant of the rollback of a block that leaves the UTXO set as it is.
rollback_receipts_none(map, receipts, i) == map

\* reorg_to_tip, rollback of the receipts of one block, last receipt first.
RECURSIVE rollback_receipts(_, _, _)
rollback_receipts(map, receipts, i) ==
  IF i = 0 THEN map
  ELSE rollback_receipts(rollback(map, receipts[i]), receipts, i - 1)

\* The transactions of a block after the first (iter().skip(1)).
SkipFirst(txs) == IF txs = <<>> THEN <<>> ELSE Tail(txs)

\* reorg_to_tip, the loop over old_path from its i-th hash on.
RECURSIVE undo_old_path(_, _, _, _, _, _)
undo_old_path(applied, blocks, map, old_path, i, evicted) ==
  IF i > Len(old_path)
  THEN [ok |-> TRUE, err |-> "Ok", applied |-> applied, map |-> map, evicted |-> evicted]
  ELSE LET hash == old_path[i]
           ev == IF hash \in DOMAIN blocks
                 THEN evicted \o SkipFirst(blocks[hash].txs) ELSE evicted
       IN IF hash \notin DOMAIN applied.undo
          THEN [ok |-> FALSE, err |-> "missing undo data", applied |-> applied,
                map |-> map, evicted |-> ev]
          ELSE undo_old_path([applied EXCEPT !.undo = MapRemove(@, hash)], blocks,
                             rollback_receipts(map, applied.undo[hash],
                                               Len(applied.undo[hash])),
                             old_path, i + 1, ev)

\* One call of apply_block_with_undo, as reorg_to_tip made it.
ApplyCall(block, height, map, r) ==
  [block |-> block, height |-> height, pre |-> map, ok |-> r.ok, err |-> r.err,
   post |-> r.map, receipts |-> r.receipts]

\* reorg_to_tip, the loop over new_path from its i-th hash on; calls is the
\* list of the calls of apply_block_with_undo made so far.
RECURSIVE apply_new_path(_, _, _, _, _, _, _, _)
apply_new_path(applied, c, blocks, map, skip_pow, new_path, i, calls) ==
  IF i > Len(new_path)
  THEN [ok |-> TRUE, err |-> "Ok", applied |-> applied, map |-> map, calls |-> calls]
  ELSE LET hash == new_path[i] IN
    IF hash \notin DOMAIN blocks
    THEN [ok |-> FALSE, err |-> "missing block data", applied |-> applied,
          map |-> map, calls |-> calls]
    ELSE IF hash \notin DOMAIN c.heights
    THEN [ok |-> FALSE, err |-> "missing height", applied |-> applied,
          map |-> map, calls |-> calls]
    ELSE With(apply_block_with_undo(blocks[hash], map, skip_pow,
                                    block_subsidy(c.heights[hash])), LAMBDA r :
      IF ~r.ok
      THEN [ok |-> FALSE, err |-> r.err, applied |-> applied, map |-> r.map,
            calls |-> Append(calls, ApplyCall(blocks[hash], c.heights[hash], map, r))]
      ELSE apply_new_path([applied EXCEPT !.undo = MapInsert(@, hash, r.receipts)],
                          c, blocks, r.map, skip_pow, new_path, i + 1,
                          Append(calls, ApplyCall(blocks[hash], c.heights[hash], map, r))))

\* A return of reorg_to_tip.
ReorgResult(ok, err, applied, map, evicted, calls) ==
  [ok |-> ok, err |-> err, applied |-> applied, map |-> map, evicted |-> evicted,
   calls |-> calls]

\* reorg_to_tip: [ok, err, applied, map, evicted, calls], the state it leaves
\* in applied and in the UTXO set, also when it returns an error.
reorg_to_tip(applied, c, blocks, map, skip_pow) ==
  IF c.tip = applied.tip THEN ReorgResult(TRUE, "Ok", applied, map, <<>>, <<>>)
  ELSE With(common_ancestor(c, applied.tip, c.tip), LAMBDA ancestor :
    IF ~ancestor.ok THEN ReorgResult(FALSE, ancestor.err, applied, map, <<>>, <<>>)
    ELSE With(path_to_ancestor(c, applied.tip, ancestor.val), LAMBDA old_path :
      IF ~old_path.ok THEN ReorgResult(FALSE, old_path.err, applied, map, <<>>, <<>>)
      ELSE With(path_from_ancestor(c, ancestor.val, c.tip), LAMBDA new_path :
        IF ~new_path.ok THEN ReorgResult(FALSE, new_path.err, applied, map, <<>>, <<>>)
        ELSE With(undo_old_path(applied, blocks, map, old_path.val, 1, <<>>), LAMBDA u :
          IF ~u.ok THEN ReorgResult(FALSE, u.err, u.applied, u.map, u.evicted, <<>>)
          ELSE With(apply_new_path(u.applied, c, blocks, u.map, skip_pow,
                                   new_path.val, 1, <<>>), LAMBDA a :
            IF ~a.ok THEN ReorgResult(FALSE, a.err, a.applied, a.map, u.evicted, a.calls)
            ELSE ReorgResult(TRUE, "Ok", [a.applied EXCEPT !.tip = c.tip], a.map,
                             u.evicted, a.calls))))))

(***************************************************************************)
(* Mempool: [map_v2, map_v1, spent, total_bytes] under a MempoolConfig.    *)
(***************************************************************************)
DEFAULT_MAX_TXS == 10000
DEFAULT_MAX_TOTAL_BYTES == 52428800

\* MempoolConfig::default; min_fee_rate in value units per byte.
MempoolConfigDefault ==
  [max_txs |-> DEFAULT_MAX_TXS, max_total_bytes |-> DEFAULT_MAX_TOTAL_BYTES,
   min_fee_rate |-> 0]

\* Mempool::new
EmptyMempool == [map_v2 |-> EmptyMap, map_v1 |-> EmptyMap, spent |-> {}, total_bytes |-> 0]

RECURSIVE SumSeq(_, _)
SumSeq(s, i) == IF i > Len(s) THEN 0 ELSE s[i] + SumSeq(s, i + 1)

\* The number of bytes of canonical_bytes_v2: version, the input count, per
\* input txid, vout, script length, script and sequence, the output count, per
\* output value, script length and script, lock_time.
canonical_len_v2(tx) ==
  4 + 8 + SumSeq([i \in 1..Len(tx.vin) |-> 32 + 4 + 8 + Len(tx.vin[i].script_sig) + 4], 1)
    + 8 + SumSeq([i \in 1..Len(tx.vout) |-> 8 + 8 + Len(tx.vout[i].script_pubkey)], 1)
    + 4

\* Transaction::txid_v1: the digest of the JSON text of the transaction.
txid_v1(tx) == Sha256d(<<tx.version, tx.vin, tx.vout, tx.lock_time, "json">>)

PrevoutsOf(tx) == {tx.vin[i].prevout : i \in 1..Len(tx.vin)}

\* remove_tx that leaves the entry of the v1 index behind.
remove_tx_keeps_v1(mp, txid) ==
  IF txid \notin DOMAIN mp.map_v2 THEN mp
  ELSE LET entry == mp.map_v2[txid] IN
    [map_v2 |-> MapRemove(mp.map_v2, txid),
     map_v1 |-> mp.map_v1,
     spent |-> mp.spent \ PrevoutsOf(entry.tx),
     total_bytes |-> IF mp.total_bytes > entry.size_bytes
                     THEN mp.total_bytes - entry.size_bytes ELSE 0]

\* Mempool::remove_tx: the mempool after the call.
remove_tx(mp, txid) ==
  IF txid \notin DOMAIN mp.map_v2 THEN mp
  ELSE LET entry == mp.map_v2[txid] IN
    [map_v2 |-> MapRemove(mp.map_v2, txid),
     map_v1 |-> MapRemove(mp.map_v1, entry.txid_v1),
     spent |-> mp.spent \ PrevoutsOf(entry.tx),
     total_bytes |-> IF mp.total_bytes > entry.size_bytes
                     THEN mp.total_bytes - entry.size_bytes ELSE 0]

\* add_tx_insert without the bookkeeping of the spent prevouts.
add_tx_insert_unspent(mp, cfg, tx, fee, size_bytes) ==
  IF Cardinality(DOMAIN mp.map_v2) + 1 > cfg.max_txs THEN [ok |-> FALSE, err |-> "Full", mp |-> mp]
  ELSE IF mp.total_bytes + size_bytes > cfg.max_total_bytes
  THEN [ok |-> FALSE, err |-> "BytesLimit", mp |-> mp]
  ELSE [ok |-> TRUE, err |-> "Ok",
        mp |-> [mp EXCEPT !.map_v2 = MapInsert(@, txid_v2(tx),
                                               [tx |-> tx, txid_v1 |-> txid_v1(tx),
                                                txid_v2 |-> txid_v2(tx), fee |-> fee,
                                                size_bytes |-> size_bytes]),
                          !.map_v1 = MapInsert(@, txid_v1(tx), txid_v2(tx)),
                          !.total_bytes = @ + size_bytes]]

\* add_tx_insert without the two limits.
add_tx_insert_unlimited(mp, cfg, tx, fee, size_bytes) ==
  [ok |-> TRUE, err |-> "Ok",
   mp |-> [map_v2 |-> MapInsert(mp.map_v2, txid_v2(tx),
                                [tx |-> tx, txid_v1 |-> txid_v1(tx),
                                 txid_v2 |-> txid_v2(tx), fee |-> fee,
                                 size_bytes |-> size_bytes]),
           map_v1 |-> MapInsert(mp.map_v1, txid_v1(tx), txid_v2(tx)),
           spent |-> mp.spent \cup PrevoutsOf(tx),
           total_bytes |-> mp.total_bytes + size_bytes]]

\* Mempool::remove_tx_v1: the mempool after the call.
remove_tx_v1(mp, txid) ==
  IF txid \notin DOMAIN mp.map_v1 THEN mp ELSE remove_tx(mp, mp.map_v1[txid])

\* fee_rate(a) < fee_rate(b), the rates fee / size_bytes compared exactly.
fee_rate_lt(a, b) ==
  BigLt(BigMulSmall(a.fee, b.size_bytes), BigMulSmall(b.fee, a.size_bytes))

Perms(S) ==
  {s \in [1..Cardinality(S) -> S] : \A i, j \in 1..Cardinality(S) : i # j => s[i] # s[j]}

\* The orders in which evict_low_fee may visit the entries: the values of the
\* HashMap in any order, sorted by fee rate with a stable sort.
EvictionOrders(mp) ==
  {s \in Perms(DOMAIN mp.map_v2) :
     \A i, j \in 1..Len(s) : i < j => ~fee_rate_lt(mp.map_v2[s[j]], mp.map_v2[s[i]])}

\* evict_low_fee, the removal loop from the i-th entry of the order on.
RECURSIVE evict_from(_, _, _, _)
evict_from(mp, cfg, order, i) ==
  IF i > Len(order) THEN mp
  ELSE With(remove_tx(mp, order[i]), LAMBDA m :
         IF Cardinality(DOMAIN m.map_v2) < cfg.max_txs /\ m.total_bytes < cfg.max_total_bytes
         THEN m ELSE evict_from(m, cfg, order, i + 1))

\* Mempool::evict_low_fee: the mempools it may leave.
evict_low_fee(mp, cfg) ==
  IF DOMAIN mp.map_v2 = {} THEN {mp}
  ELSE {evict_from(mp, cfg, order, 1) : order \in EvictionOrders(mp)}

AddTxErr(err, mp) == [ok |-> FALSE, err |-> err, mp |-> mp]

\* add_tx, from the limits that are checked after an eviction on.
add_tx_insert(mp, cfg, tx, fee, size_bytes) ==
  IF Cardinality(DOMAIN mp.map_v2) + 1 > cfg.max_txs THEN AddTxErr("Full", mp)
  ELSE IF mp.total_bytes + size_bytes > cfg.max_total_bytes THEN AddTxErr("BytesLimit", mp)
  ELSE [ok |-> TRUE, err |-> "Ok",
        mp |-> [map_v2 |-> MapInsert(mp.map_v2, txid_v2(tx),
                                     [tx |-> tx, txid_v1 |-> txid_v1(tx),
                                      txid_v2 |-> txid_v2(tx), fee |-> fee,
                                      size_bytes |-> size_bytes]),
                map_v1 |-> MapInsert(mp.map_v1, txid_v1(tx), txid_v2(tx)),
                spent |-> mp.spent \cup PrevoutsOf(tx),
                total_bytes |-> mp.total_bytes + size_bytes]]

\* Mempool::add_tx against the UTXO set `map`: the results [ok, err, mp] it may
\* have (several only when an eviction has a choice).
add_tx(mp, cfg, tx, map) ==
  IF validate(tx) # "Ok" THEN {AddTxErr(validate(tx), mp)}
  ELSE IF txid_v2(tx) \in DOMAIN mp.map_v2 \/ txid_v1(tx) \in DOMAIN mp.map_v1
  THEN {AddTxErr("DuplicateTx", mp)}
  ELSE IF PrevoutsOf(tx) \cap mp.spent # {}
  THEN {[ok |-> FALSE, err |-> "DoubleSpend", mp |-> mp,
         prevout |-> tx.vin[CHOOSE i \in 1..Len(tx.vin) :
                              /\ tx.vin[i].prevout \in mp.spent
                              /\ \A j \in 1..(i - 1) : tx.vin[j].prevout \notin mp.spent].prevout]}
  ELSE With(validate_value_conservation(tx, map), LAMBDA fee :
    IF ~fee.ok THEN {AddTxErr(fee.err, mp)}
    ELSE With(canonical_len_v2(tx), LAMBDA size_bytes :
      IF BigLt(fee.val, BigFromInt(cfg.min_fee_rate * size_bytes))
      THEN {AddTxErr("LowFee", mp)}
      ELSE IF Cardinality(DOMAIN mp.map_v2) + 1 > cfg.max_txs
              \/ mp.total_bytes + size_bytes > cfg.max_total_bytes
      THEN {add_tx_insert(m, cfg, tx, fee.val, size_bytes) : m \in evict_low_fee(mp, cfg)}
      ELSE {add_tx_insert(mp, cfg, tx, fee.val, size_bytes)}))

(***************************************************************************)
(* build_block_template.  The digests of the model do not carry the order  *)
(* of their bytes: txid_order lists the txids of the entries in ascending  *)
(* byte order, and every such order is considered.                         *)
(***************************************************************************)
PositionIn(seq, x) == CHOOSE i \in 1..Len(seq) : seq[i] = x

\* The comparator without the tie-break on txid_v2.
template_before_by_rate(a, b, txid_order) == fee_rate_lt(b, a)

\* The comparator of the sort gives Less for (a, b): descending fee rate, and
\* ascending txid_v2 on equal rates.
template_before(a, b, txid_order) ==
  \/ fee_rate_lt(b, a)
  \/ /\ ~fee_rate_lt(a, b)
     /\ PositionIn(txid_order, a.txid_v2) < PositionIn(txid_order, b.txid_v2)

\* slice::sort_by, a stable sort: the entries from the i-th on are inserted
\* into the sorted prefix `out`, each before the first entry it is Less than.
RECURSIVE template_sort(_, _, _, _)
template_sort(entries, i, out, txid_order) ==
  IF i > Len(entries) THEN out
  ELSE With({k \in 1..Len(out) : template_before(entries[i], out[k], txid_order)},
            LAMBDA later :
         With(IF later = {} THEN Len(out) + 1
              ELSE CHOOSE k \in later : \A j \in later : k <= j, LAMBDA at :
           template_sort(entries, i + 1,
                         SubSeq(out, 1, at - 1) \o <<entries[i]>> \o SubSeq(out, at, Len(out)),
                         txid_order)))

\* The selection loop from the i-th sorted entry on.
RECURSIVE template_select(_, _, _, _, _, _)
template_select(entries, i, max_block_bytes, total_size, total_fees, txs) ==
  IF i > Len(entries) THEN [txs |-> txs, total_fees |-> total_fees, total_size |-> total_size]
  ELSE IF total_size + entries[i].size_bytes > max_block_bytes
  THEN template_select(entries, i + 1, max_block_bytes, total_size, total_fees, txs)
  ELSE template_select(entries, i + 1, max_block_bytes, total_size + entries[i].size_bytes,
                       saturating_add_u64(total_fees, entries[i].fee),
                       Append(txs, entries[i].tx))

\* build_block_template for one order in which Mempool::entries lists the
\* entries: [ok, err, block, total_fees, total_size].
build_template_from(mp, listed, coinbase, prev, time, bits, version, max_block_bytes,
                    txid_order) ==
  IF validate(coinbase) # "Ok"
  THEN [ok |-> FALSE, err |-> validate(coinbase)]
  ELSE With(template_select(template_sort([i \in 1..Len(listed) |-> mp.map_v2[listed[i]]],
                                          1, <<>>, txid_order),
                            1, max_block_bytes, canonical_len_v2(coinbase), <<>>,
                            <<coinbase>>), LAMBDA sel :
         IF sel.total_size > max_block_bytes THEN [ok |-> FALSE, err |-> "SizeLimit"]
         ELSE [ok |-> TRUE, err |-> "Ok",
               block |-> [BlockOf(prev, time, bits, 0, sel.txs) EXCEPT !.header.version = version],
               total_fees |-> sel.total_fees, total_size |-> sel.total_size])

\* build_block_template: the results it may have, one for each order in which
\* the HashMap may list the entries.
build_block_template(mp, coinbase, prev, time, bits, version, max_block_bytes, txid_order) ==
  {build_template_from(mp, listed, coinbase, prev, time, bits, version, max_block_bytes,
                       txid_order) : listed \in Perms(DOMAIN mp.map_v2)}

(***************************************************************************)
(* The message handlers of handle_connection, on the node state            *)
(* n = [utxos, chain, blocks, applied, mempool, seen]: each gives the      *)
(* results [node, ok, err, ...] the handler may have. The node runs with   *)
(* the default txid version (2) and without a data directory.              *)
(***************************************************************************)
\* Seen::default
NoSeen == [tx |-> {}, block |-> {}]

\* The Tx handler.
handle_tx(n, tx) ==
  IF validate(tx) # "Ok"
  THEN {[node |-> n, op |-> "tx_error", ok |-> FALSE, err |-> validate(tx)]}
  ELSE IF txid_v2(tx) \in n.seen.tx
  THEN {[node |-> n, op |-> "tx_seen", ok |-> FALSE, err |-> "Ok"]}
  ELSE {[node |-> [n EXCEPT !.seen.tx = @ \cup {txid_v2(tx)}, !.mempool = r.mp],
         op |-> "add_tx", ok |-> r.ok, err |-> r.err] :
          r \in add_tx(n.mempool, MempoolConfigDefault, tx, n.utxos)}

\* The Headers handler, from the i-th header on: the chains it may leave (the
\* first rejected header ends the loop).
RECURSIVE add_headers(_, _, _, _, _)
add_headers(c, skip_pow, headers, i, now) ==
  IF i > Len(headers) THEN {c}
  ELSE UNION {With(add_header(c, headers[i], skip_pow, now, start), LAMBDA r :
                IF r.ok THEN add_headers(r.chain, skip_pow, headers, i + 1, now) ELSE {c}) :
              start \in StartChoices(c, headers[i].prev_block_hash)}

\* The Block handler, re-offering the evicted transactions from the i-th on: the
\* mempools it may leave.
RECURSIVE readd_evicted(_, _, _, _)
readd_evicted(mps, evicted, i, map) ==
  IF i > Len(evicted) THEN mps
  ELSE readd_evicted(UNION {{r.mp : r \in add_tx(m, MempoolConfigDefault, evicted[i], map)} :
                              m \in mps},
                     evicted, i + 1, map)

\* The Block handler, removing the transactions of the block from the i-th on.
RECURSIVE remove_block_txs(_, _, _)
remove_block_txs(mp, txs, i) ==
  IF i > Len(txs) THEN mp
  ELSE IF validate(txs[i]) # "Ok" THEN remove_block_txs(mp, txs, i + 1)
  ELSE remove_block_txs(remove_tx(mp, txid_v2(txs[i])), txs, i + 1)

\* The Block handler, from the call of reorg_to_tip on (n holds the block and
\* the chain after add_header).
handle_block_reorg(n, skip_pow, block) ==
  With(reorg_to_tip(n.applied, n.chain, n.blocks, n.utxos, skip_pow), LAMBDA r :
    IF ~r.ok
    THEN {[node |-> [n EXCEPT !.applied = r.applied, !.utxos = r.map],
           op |-> "block", ok |-> FALSE, err |-> r.err, calls |-> r.calls]}
    ELSE {[node |-> [n EXCEPT !.applied = r.applied, !.utxos = r.map,
                              !.mempool = remove_block_txs(m, block.txs, 1)],
           op |-> "block", ok |-> TRUE, err |-> "Ok", calls |-> r.calls] :
            m \in readd_evicted({n.mempool}, r.evicted, 1, r.map)})

\* The Block handler.
handle_block(n, skip_pow, block, now, start) ==
  With(header_hash(block.header), LAMBDA block_hash :
    IF block_hash \in n.seen.block
    THEN {[node |-> n, op |-> "block_seen", ok |-> FALSE, err |-> "Ok", calls |-> <<>>]}
    ELSE With(add_header(n.chain, block.header, skip_pow, now, start), LAMBDA h :
      With([n EXCEPT !.seen.block = @ \cup {block_hash},
                     !.blocks = MapInsert(@, block_hash, block),
                     !.chain = h.chain], LAMBDA stored :
        IF ~h.ok
        THEN {[node |-> stored, op |-> "block", ok |-> FALSE, err |-> h.err,
               calls |-> <<>>]}
        ELSE handle_block_reorg(stored, skip_pow, block))))

(***************************************************************************)
(* A peer connection: the rate limiter of handle_connection and the fate   *)
(* of the connection.  Instants are in seconds.                            *)
(***************************************************************************)
MSG_WINDOW_SECS == 60
MAX_MSGS_PER_WINDOW == 120
READ_TIMEOUT_SECS == 30

\* RateLimiter::new at the instant now.
RateLimiter(now) == [window_start |-> now, count |-> 0]

\* RateLimiter::bump at the instant now: [ok, rate].  The count is a u32 and
\* the addition saturates; a connection ends when its count passes
\* MAX_MSGS_PER_WINDOW, far below saturation.
bump(rate, now) ==
  With(IF now - rate.window_start >= MSG_WINDOW_SECS THEN RateLimiter(now) ELSE rate,
       LAMBDA r :
    [ok |-> r.count + 1 <= MAX_MSGS_PER_WINDOW, rate |-> [r EXCEPT !.count = @ + 1]])

\* should_ban, on the kind of a P2pError.
should_ban(err) == err \in {"InvalidLength", "InvalidBlock", "Json"}

\* handle_connection at the instant now, before its loop: the limiter, the
\* instant of the last successful read, the number of messages dispatched at
\* each instant, and how the connection ended.
Connection(now) ==
  [open |-> TRUE, rate |-> RateLimiter(now), last_read |-> now, dispatched |-> EmptyMap,
   err |-> "Ok", banned |-> FALSE]

NoConnection == [Connection(0) EXCEPT !.open = FALSE]

\* One turn of the loop of handle_connection for a Ping or Pong read at the
\* instant now; an error ends handle_connection, and the thread that ran it
\* bans the peer if should_ban.
handle_ping(conn, now) ==
  With(bump(conn.rate, now), LAMBDA b :
    IF ~b.ok
    THEN [conn EXCEPT !.open = FALSE, !.rate = b.rate, !.last_read = now,
                      !.err = "InvalidBlock", !.banned = should_ban("InvalidBlock")]
    ELSE [conn EXCEPT !.rate = b.rate, !.last_read = now,
                      !.dispatched = MapInsert(@, now, IF now \in DOMAIN @ THEN @[now] + 1
                                                      ELSE 1)])

\* read_message fails after READ_TIMEOUT_SECS without a message.
read_timeout(conn) == [conn EXCEPT !.open = FALSE, !.err = "Io", !.banned = should_ban("Io")]

(***************************************************************************)
(* PeerManager.  Every method runs under the lock of the PeerManager and   *)
(* reads Instant::now() as `now`.                                          *)
(***************************************************************************)
MAX_PEERS == 64
BAN_DURATION_SECS == 10 * 60
SEED_DIAL_INTERVAL_SECS == 30
SEED_RETRY_ATTEMPTS == 8

\* PeerManager::new
PeerManager(initial) == [peers |-> initial, banned |-> EmptyMap, last_dial |-> EmptyMap]

\* PeerManager::purge_bans
purge_bans(pm, now) ==
  [pm EXCEPT !.banned = [a \in {b \in DOMAIN @ : @[b] > now} |-> @[a]] @@ EmptyMap]

\* PeerManager::is_banned: [pm, res]
is_banned(pm, addr, now) ==
  With(purge_bans(pm, now), LAMBDA p : [pm |-> p, res |-> addr \in DOMAIN p.banned])

\* PeerManager::allow_incoming: [pm, res]
allow_incoming(pm, addr, now) ==
  With(purge_bans(pm, now), LAMBDA p :
    IF addr \in DOMAIN p.banned \/ Cardinality(p.peers) >= MAX_PEERS
    THEN [pm |-> p, res |-> FALSE]
    ELSE [pm |-> [p EXCEPT !.peers = @ \cup {addr}], res |-> TRUE])

\* PeerManager::add_peer: [pm, ok, res, err]; res is the value of Ok(..), true
\* when the address was not yet in the peer set.
add_peer(pm, addr, now) ==
  With(purge_bans(pm, now), LAMBDA p :
    IF addr \in DOMAIN p.banned
    THEN [pm |-> p, ok |-> FALSE, res |-> FALSE, err |-> "peer banned"]
    ELSE IF Cardinality(p.peers) >= MAX_PEERS
    THEN [pm |-> p, ok |-> FALSE, res |-> FALSE, err |-> "peer limit reached"]
    ELSE [pm |-> [p EXCEPT !.peers = @ \cup {addr}], ok |-> TRUE,
          res |-> addr \notin p.peers, err |-> "Ok"])

\* PeerManager::list: [pm, res]
peer_list(pm, now) == With(purge_bans(pm, now), LAMBDA p : [pm |-> p, res |-> p.peers])

\* PeerManager::mark_dialed
mark_dialed(pm, addr, now) == [pm EXCEPT !.last_dial = MapInsert(@, addr, now)]

\* PeerManager::should_dial: [pm, res]
should_dial(pm, addr, now) ==
  With(purge_bans(pm, now), LAMBDA p :
    [pm |-> p,
     res |-> IF addr \in DOMAIN p.last_dial
             THEN now - p.last_dial[addr] >= SEED_DIAL_INTERVAL_SECS
             ELSE TRUE])

\* PeerManager::ban
ban(pm, addr, now) ==
  [pm EXCEPT !.peers = @ \ {addr}, !.banned = MapInsert(@, addr, now + BAN_DURATION_SECS)]

(***************************************************************************)
(* The UTXO set on disk: utxo.jsonl in the data directory and the trees    *)
(* "utxo" and "meta" of the sled database.  A txid stands for its 32       *)
(* bytes and is one element of a key.                                      *)
(***************************************************************************)
U32_BYTES == 4

\* n.to_le_bytes() of a width of k bytes, and from_le_bytes.
to_le_bytes(n, k) == [i \in 1..k |-> BigDigit(BigFromInt(n), i)]
from_le_bytes(bytes) == BigToInt(BigNorm(bytes))

encode_outpoint(outpoint) == <<outpoint.txid>> \o to_le_bytes(outpoint.vout, U32_BYTES)

encode_txout(txout) ==
  [i \in 1..U64_BYTES |-> BigDigit(txout.value, i)]
  \o to_le_bytes(Len(txout.script_pubkey), U64_BYTES)
  \o txout.script_pubkey

\* decode_outpoint: [ok, val]
decode_outpoint(bytes) ==
  IF Len(bytes) # 1 + U32_BYTES THEN [ok |-> FALSE, val |-> None]
  ELSE [ok |-> TRUE,
        val |-> [txid |-> bytes[1], vout |-> from_le_bytes(SubSeq(bytes, 2, 1 + U32_BYTES))]]

\* decode_txout: [ok, val]
decode_txout(bytes) ==
  IF Len(bytes) < 2 * U64_BYTES THEN [ok |-> FALSE, val |-> None]
  ELSE With(from_le_bytes(SubSeq(bytes, U64_BYTES + 1, 2 * U64_BYTES)), LAMBDA len :
    IF Len(bytes) < 2 * U64_BYTES + len THEN [ok |-> FALSE, val |-> None]
    ELSE [ok |-> TRUE,
          val |-> [value |-> BigNorm(SubSeq(bytes, 1, U64_BYTES)),
                   script_pubkey |-> SubSeq(bytes, 2 * U64_BYTES + 1, 2 * U64_BYTES + len)]])

\* An empty database, and a data directory without utxo.jsonl.
EmptyDb == [utxo |-> EmptyMap, meta |-> EmptyMap]
EmptyDir == [utxo_jsonl |-> None]

\* The lines of utxo.jsonl, one UtxoEntry each.
UtxoEntries(map) == {[outpoint |-> o, txout |-> map[o]] : o \in DOMAIN map}

\* The tree "utxo" after the insertion of every entry of map.
tree_insert_all(tree, map) ==
  With({encode_outpoint(o) : o \in DOMAIN map}, LAMBDA keys :
    [k \in DOMAIN tree \cup keys |->
       IF k \in keys
       THEN encode_txout(map[CHOOSE o \in DOMAIN map : encode_outpoint(o) = k])
       ELSE tree[k]] @@ EmptyMap)

\* persist_utxos with a database, every write succeeding: [dir, db]
persist_utxos(dir, map, db) ==
  [dir |-> [dir EXCEPT !.utxo_jsonl = <<UtxoEntries(map)>>],
   db |-> [db EXCEPT !.utxo = tree_insert_all(@, map),
                     !.meta = MapInsert(@, "utxo_count",
                                        to_le_bytes(Cardinality(DOMAIN map), U64_BYTES))]]

\* load_utxo_count: None, or the count
load_utxo_count(db) ==
  IF "utxo_count" \in DOMAIN db.meta /\ Len(db.meta["utxo_count"]) = U64_BYTES
  THEN <<from_le_bytes(db.meta["utxo_count"])>>
  ELSE None

\* The set that the insertion of the entries of a utxo.jsonl builds.
set_of_entries(entries) ==
  [o \in {e.outpoint : e \in entries} |->
     (CHOOSE e \in entries : e.outpoint = o).txout] @@ EmptyMap

\* load_utxos without a snapshot path: [ok, err, set]
load_utxos(dir, db) ==
  IF DOMAIN db.utxo # {}
  THEN IF \E k \in DOMAIN db.utxo : ~decode_outpoint(k).ok \/ ~decode_txout(db.utxo[k]).ok
       THEN [ok |-> FALSE, err |-> "InvalidData", set |-> EmptyMap]
       ELSE With([o \in {decode_outpoint(k).val : k \in DOMAIN db.utxo} |->
                    decode_txout(db.utxo[encode_outpoint(o)]).val] @@ EmptyMap, LAMBDA set :
              IF load_utxo_count(db) # None /\ load_utxo_count(db)[1] # Cardinality(DOMAIN set)
              THEN [ok |-> FALSE, err |-> "utxo count mismatch", set |-> EmptyMap]
              ELSE [ok |-> TRUE, err |-> "Ok", set |-> set])
  ELSE IF dir.utxo_jsonl # None
  THEN [ok |-> TRUE, err |-> "Ok", set |-> set_of_entries(dir.utxo_jsonl[1])]
  ELSE [ok |-> TRUE, err |-> "Ok", set |-> EmptyMap]

(***************************************************************************)
(* utxo-reindex, the mapping of the outpoints of a transaction list with a *)
(* checkpoint file.                                                        *)
(***************************************************************************)
CHECKPOINT_INTERVAL == 1000

\* map_outpoints_v1_to_v2: one MappingEntry per output.
map_outpoints_v1_to_v2(tx) ==
  [i \in 1..Len(tx.vout) |->
     [v1 |-> [txid |-> txid_v1(tx), vout |-> i - 1], v2 |-> [txid |-> txid_v2(tx), vout |-> i - 1]]]

\* ReindexReport::new, the counters of the report.
NewReport == [skipped |-> 0, total_inputs |-> 0, total_outputs |-> 0]

\* save_checkpoint: the content of the checkpoint file.
save_checkpoint(next_tx_index, mappings, report) ==
  <<[next_tx_index |-> next_tx_index, mappings |-> mappings, report |-> report]>>

\* A run of utxo_reindex at the top of its loop over the transactions: the
\* index to start from, the index of the loop (from 0), the mappings and the
\* report so far, the output file, and the number of transactions for which
\* the last checkpoint was saved.
ReindexRun(txs, start_index, mappings, report) ==
  [txs |-> txs, start_index |-> start_index, idx |-> 0, mappings |-> mappings,
   report |-> report, pc |-> "loop", out |-> None, consumed |-> 0]

\* One turn of the loop of utxo_reindex with a checkpoint path, for the
\* transaction at r.idx: [run, file].
reindex_tx(r, file) ==
  With(r.txs[r.idx + 1], LAMBDA tx :
    With([r EXCEPT !.idx = @ + 1], LAMBDA next :
      IF r.idx < r.start_index THEN [run |-> next, file |-> file]
      ELSE IF validate(tx) # "Ok"
      THEN [run |-> [next EXCEPT !.report.skipped = @ + 1], file |-> file]
      ELSE With([next EXCEPT !.report.total_inputs = @ + Len(tx.vin),
                             !.report.total_outputs = @ + Len(tx.vout),
                             !.mappings = @ \o map_outpoints_v1_to_v2(tx)], LAMBDA done :
             IF r.idx % CHECKPOINT_INTERVAL = 0
             THEN [run |-> [done EXCEPT !.consumed = r.idx + 1],
                   file |-> save_checkpoint(r.idx + 1, done.mappings, done.report)]
             ELSE [run |-> done, file |-> file])))

\* utxo_reindex after the loop: write_mappings and the final checkpoint.
reindex_finish(r) ==
  [run |-> [r EXCEPT !.pc = "done", !.out = <<r.mappings>>, !.consumed = r.idx],
   file |-> save_checkpoint(Len(r.mappings), r.mappings, r.report)]

\* The mappings that a run without --resume and without interruption writes.
RECURSIVE reindex_all(_)
reindex_all(r) ==
  IF r.idx < Len(r.txs) THEN reindex_all(reindex_tx(r, None).run)
  ELSE reindex_finish(r).run.out[1]

(***************************************************************************)
(* The state mutexes in the dispatch of a message by handle_connection:    *)
(* for every path through a match arm, the steps that lock a mutex, drop a *)
(* guard, enter broadcast_inv, or use the network.  A guard bound by `let` *)
(* in the arm is dropped at the end of the arm, in reverse order of the    *)
(* declarations; a guard in an inner block or a temporary is dropped at    *)
(* the end of the block or statement.                                      *)
(***************************************************************************)
Lock(m) == [op |-> "lock", m |-> m]
Unlock(m) == [op |-> "unlock", m |-> m]
Send == [op |-> "send", m |-> "stream"]
Connect == [op |-> "connect", m |-> "peer"]
Enter(f) == [op |-> "enter", m |-> f]

\* seen_tx, seen_block
seen_steps == <<Lock("seen"), Unlock("seen")>>

\* broadcast_inv: the list of the peers under the lock, then a connect and a
\* send for each.
broadcast_inv_steps ==
  <<Enter("broadcast_inv"), Lock("peers"), Unlock("peers"), Connect>>

\* The arm of P2pMessage::Tx from the two locks on; `accepted` as add_tx
\* returned Ok.
tx_steps(accepted) ==
  <<Lock("mempool"), Lock("utxos")>>
  \o (IF accepted THEN broadcast_inv_steps ELSE <<>>)
  \o <<Unlock("utxos"), Unlock("mempool")>>

\* The arm of P2pMessage::Block from the insertion into the block store on;
\* `best` as reorg_to_tip returned Ok and the block is the best tip.
block_steps(header_ok, best) ==
  <<Lock("blocks"), Unlock("blocks"), Lock("chain"), Unlock("chain")>>
  \o (IF ~header_ok THEN <<>>
      ELSE <<Lock("utxos"), Lock("mempool"), Lock("applied"), Lock("blocks"), Lock("chain")>>
           \o (IF best THEN broadcast_inv_steps ELSE <<>>)
           \o <<Unlock("chain"), Unlock("blocks"), Unlock("applied"), Unlock("mempool"),
                Unlock("utxos")>>)

\* The paths of the dispatch of one message, by the message and the outcome.
DispatchPaths ==
  [Hello |-> <<Lock("peers"), Unlock("peers"), Lock("peers"), Unlock("peers"), Send>>,
   Addr |-> <<Lock("peers"), Unlock("peers")>>,
   GetHeaders |-> <<Lock("chain"), Unlock("chain"), Send>>,
   Headers |-> <<Lock("chain"), Unlock("chain")>>,
   Inv |-> <<Lock("mempool"), Unlock("mempool"), Lock("blocks"), Unlock("blocks"), Send>>,
   GetTx |-> <<Lock("mempool"), Send, Unlock("mempool")>>,
   GetBlock |-> <<Lock("blocks"), Send, Unlock("blocks")>>,
   Ping |-> <<Send>>,
   TxSeen |-> seen_steps,
   TxRejected |-> seen_steps \o tx_steps(FALSE),
   TxAccepted |-> seen_steps \o tx_steps(TRUE),
   BlockSeen |-> seen_steps,
   BlockHeaderRejected |-> seen_steps \o block_steps(FALSE, FALSE),
   BlockStored |-> seen_steps \o block_steps(TRUE, FALSE),
   BlockAccepted |-> seen_steps \o block_steps(TRUE, TRUE)]

\* The handler threads, one per connection.
Threads == {"t1", "t2"}

\* A thread: the path it runs, the number of steps done, and the mutexes it
\* holds in the order in which it locked them.
IdleThread == [path |-> <<>>, pc |-> 0, held |-> <<>>]

\* The step the thread takes next.
NextStep(th) == th.path[th.pc + 1]

\* The thread has a step to take, and it is not the lock of a mutex that a
\* thread holds (a std Mutex blocks also the thread that holds it).
CanStep(th, owners) ==
  /\ th.pc < Len(th.path)
  /\ NextStep(th).op = "lock" => NextStep(th).m \notin DOMAIN owners

\* The held list without the mutex m.
Released(held, m) == SelectSeq(held, LAMBDA h : h # m)

\* The thread after its next step.
step_thread(th) ==
  With(NextStep(th), LAMBDA st :
    [th EXCEPT !.pc = @ + 1,
               !.held = IF st.op = "lock" THEN Append(@, st.m)
                        ELSE IF st.op = "unlock" THEN Released(@, st.m)
                        ELSE @])

(***************************************************************************)
(* State.                                                                  *)
(***************************************************************************)
VARIABLES
  utxos,         \* InMemoryUtxoSet.map : OutPoint -> TxOut
  chain,         \* ChainState
  no_pow_check,  \* P2pConfig.no_pow_check
  replica,       \* ChainState of a second node that is offered the same headers
  pending,       \* [a, b]: the headers still to be offered to chain and to replica
  blocks,        \* BlockStore.map : header hash -> Block
  applied,       \* AppliedState [tip, undo]
  mempool,       \* Mempool
  seen,          \* Seen [tx, block]
  cfg,           \* Mempool.cfg, the MempoolConfig the mempool was created with
  clock,         \* Instant::now(), in seconds
  conn,          \* a peer connection (handle_connection)
  peers,         \* the PeerManager shared by the threads of run_p2p
  dial,          \* per address, the position of a thread of spawn_connect
  open,          \* per address, the number of running handle_connection
  data_dir,      \* the files of the data directory
  db,            \* the sled database of the data directory
  reindex,       \* the running utxo_reindex
  checkpoint,    \* the checkpoint file of utxo_reindex: None, or its content
  sync,          \* the blocks a peer serves to the node, and how many it has sent
  mutex,         \* per state mutex that is locked, the thread that holds it
  thread,        \* per handler thread, the dispatch it runs and its position
  last,          \* the last operation: its name, argument, result and pre-state
  steps          \* number of operations performed so far

vars == <<utxos, chain, no_pow_check, replica, pending, blocks, applied, mempool, seen,
          cfg, clock, conn, peers, dial, open, data_dir, db, reindex, checkpoint, sync, mutex, thread, last, steps>>
chainVars == <<chain, no_pow_check>>
permVars == <<replica, pending>>
nodeVars == <<blocks, applied, mempool, seen>>
peerVars == <<peers, dial, open>>
netVars == <<clock, conn, peerVars>>
diskVars == <<data_dir, db>>
reindexVars == <<reindex, checkpoint, sync>>
lockVars == <<mutex, thread>>
auxVars == <<cfg, netVars, diskVars, reindexVars, lockVars>>

\* The state outside the chain, the UTXO set and the node at start.
PeersAtStart ==
  /\ peers = PeerManager({})
  /\ dial = EmptyMap
  /\ open = EmptyMap
NetAtStart == clock = 0 /\ conn = NoConnection /\ PeersAtStart
DiskAtStart == data_dir = EmptyDir /\ db = EmptyDb
NoSync == [blocks |-> <<>>, headers_sent |-> FALSE, sent |-> 0]
ReindexAtStart ==
  /\ reindex = ReindexRun(<<>>, 0, <<>>, NewReport)
  /\ checkpoint = None
  /\ sync = NoSync
LocksAtStart == mutex = EmptyMap /\ thread = [t \in Threads |-> IdleThread]
AuxAtStart ==
  /\ cfg = MempoolConfigDefault
  /\ NetAtStart
  /\ DiskAtStart
  /\ ReindexAtStart
  /\ LocksAtStart

\* The block store, applied state, mempool and seen sets of a node at start.
NodeAtStart ==
  /\ blocks = EmptyMap
  /\ applied = AppliedState(GenesisHash)
  /\ mempool = EmptyMempool
  /\ seen = NoSeen
  /\ AuxAtStart

(***************************************************************************)
(* Bounds of the model and the inputs drawn within them.                   *)
(***************************************************************************)
MaxTxLen == 2
MaxSteps == 1

SeqsUpTo(S, n) == UNION {[1..k -> S] : k \in 0..n}

TxInOf(op) == [prevout |-> op, script_sig |-> <<>>, sequence |-> 0]
TxOf(vin, vout) == [version |-> 1, vin |-> vin, vout |-> vout, lock_time |-> 0]
OutPointOf(id, n) == [txid |-> id, vout |-> n]

\* An outpoint that no set holds.
MissingOutPoint == OutPointOf(<<9>>, 0)
\* Outputs a transaction may carry.
TxOutChoices ==
  {[value |-> BigFromInt(60), script_pubkey |-> <<>>],
   [value |-> U64_MAX, script_pubkey |-> <<4, 5>>]}

\* Transactions that violate the bounds of Transaction::validate.
OversizeScript == [i \in 1..(MAX_SCRIPT_SIZE + 1) |-> 0]
OversizeScriptTx ==
  TxOf(<<[prevout |-> MissingOutPoint, script_sig |-> OversizeScript, sequence |-> 0]>>, <<>>)
TooManyOutputsTx ==
  TxOf(<<>>, [i \in 1..(MAX_TX_INOUTS + 1) |-> [value |-> <<>>, script_pubkey |-> <<>>]])

\* The transactions offered to a UTXO set whose map is `map`.
TxInputs(map) ==
  {TxOf(vin, vout) :
     vin \in SeqsUpTo({TxInOf(op) : op \in DOMAIN map \cup {MissingOutPoint}}, MaxTxLen),
     vout \in SeqsUpTo(TxOutChoices, MaxTxLen)}
  \cup {OversizeScriptTx, TooManyOutputsTx}

NoTx == TxOf(<<>>, <<>>)
\* What the caller holds after an operation: its result, and for a successful
\* apply_tx the transaction, the receipt and the set as it was before the call.
NoLast == [op |-> "none", ok |-> TRUE, err |-> "Ok", undone |-> 0, tx |-> NoTx,
           pre |-> EmptyMap, receipt |-> NoReceipt]

\* The entries a caller preloads with insert (as the repository's tests do).
PreloadSet ==
  (OutPointOf(<<5>>, 0) :> [value |-> BigFromInt(100), script_pubkey |-> <<>>])
  @@ (OutPointOf(<<6>>, 0) :> [value |-> U64_MAX, script_pubkey |-> <<1>>])
PreloadSets == {[op \in D |-> PreloadSet[op]] : D \in SUBSET DOMAIN PreloadSet}

\* An entry left at an outpoint that a transaction is about to create.
StaleTxOut == [value |-> BigFromInt(999), script_pubkey |-> <<>>]

\* The outpoints the transactions that `map` accepts would create.
StagedOutPoints(map) ==
  UNION {{make_outpoints(tx)[i] : i \in 1..Len(tx.vout)} :
           tx \in {t \in TxInputs(map) : apply_tx(map, t).ok}}

\* The sets a caller can build with insert: a preload, and possibly one entry at
\* an outpoint of a transaction offered later (apply_tx_atomicity_on_collision).
InitialSets ==
  PreloadSets
  \cup UNION {{MapInsert(S, op, StaleTxOut) : op \in StagedOutPoints(S)} : S \in PreloadSets}

(***************************************************************************)
(* Operations of the UTXO set (trait UtxoSet on InMemoryUtxoSet).          *)
(***************************************************************************)
\* UtxoSet::apply_tx
UtxoApplyTx ==
  /\ steps < MaxSteps
  /\ \E tx \in TxInputs(utxos) :
       \E r \in {apply_tx(utxos, tx)} :
       /\ utxos' = r.map
       /\ last' = IF r.ok
                  THEN [op |-> "apply_tx", ok |-> TRUE, err |-> "Ok", undone |-> 0,
                        tx |-> tx, pre |-> utxos, receipt |-> r.receipt]
                  ELSE [last EXCEPT !.op = "apply_tx", !.ok = FALSE, !.err = r.err,
                                    !.undone = r.undone]
  /\ steps' = steps + 1
  /\ UNCHANGED <<chainVars, permVars, nodeVars, auxVars>>

\* UtxoSet::rollback of the receipt the last successful apply_tx returned, called
\* on the set that apply_tx left.
UtxoRollback ==
  /\ last.op = "apply_tx" /\ last.ok
  /\ utxos' = rollback(utxos, last.receipt)
  /\ last' = [last EXCEPT !.op = "rollback"]
  /\ steps' = steps + 1
  /\ UNCHANGED <<chainVars, permVars, nodeVars, auxVars>>

UtxoInit ==
  /\ utxos \in InitialSets
  /\ chain = with_genesis
  /\ no_pow_check = FALSE
  /\ replica = with_genesis
  /\ pending = [a |-> {}, b |-> {}]
  /\ NodeAtStart
  /\ last = NoLast
  /\ steps = 0

UtxoNext == UtxoApplyTx \/ UtxoRollback

SpecUtxo == UtxoInit /\ [][UtxoNext]_vars

(***************************************************************************)
(* Properties of the UTXO set.                                             *)
(***************************************************************************)
\* C1: a call of apply_tx that returns an error leaves the set exactly as it
\* was before the call, whatever the error (bounds, DuplicateInput, MissingUtxo,
\* ValueNotConserved, Overflow, DuplicateOutput): the inputs are still present
\* and a colliding entry keeps its value.
ApplyTxAtomicOnError ==
  [][(last'.op = "apply_tx" /\ ~last'.ok) => utxos' = utxos]_vars

\* A collision found after an input was removed and an output inserted.
ApplyTxCollisionUndone ==
  /\ last.op = "apply_tx" /\ ~last.ok
  /\ last.err = "DuplicateOutput" /\ last.undone >= 2

\* C2: rollback of the receipt of a successful apply_tx, on the set the call
\* left, gives back the set as it was before the call: same keys, same TxOuts.
RollbackRestores == last.op = "rollback" => utxos = last.pre

\* A rollback that both removed outputs and re-inserted spent inputs.
RollbackOfSpend ==
  /\ last.op = "rollback"
  /\ last.receipt.removed # <<>> /\ last.receipt.inserted # <<>>
  /\ utxos = last.pre
(***************************************************************************)
(* The header chain under add_header.                                      *)
(***************************************************************************)
MaxAdds == 2

\* Readings of the system clock (SystemTime::now) at a call.
NowChoices == {GENESIS_TIME, GENESIS_TIME + MAX_FUTURE_DRIFT_SECS}

\* A hash that is no stored header (the test digest [7; 32]).
UnknownHash == <<7>>
\* Compact targets other than INITIAL_BITS: a target of the same size with a
\* smaller mantissa (0x2000ffff), a small target that carries work
\* (0x0f01ffff), and INITIAL_BITS + 1 (0x20800000), whose mantissa is zero.
EasyBits == 32 * EXPONENT_DIV + 65535
LowBits == 15 * EXPONENT_DIV + 131071
ZeroMantissaBits == INITIAL_BITS + 1

\* The header that extends the tip of c by dt seconds with the bits the
\* chain expects (the first window start, when there are several).
NextHeader(c, dt) ==
  LET prev == c.headers[c.tip]
      height == c.heights[c.tip] + 1
      starts == WindowStarts(c, height)
      start == IF starts = {} THEN None ELSE Some(CHOOSE ha \in starts : TRUE)
  IN HeaderOf(c.tip, GENESIS_MERKLE_ROOT, prev.time + dt,
              expected_bits(c, Some(prev), height, start).val, 0)

\* The chain c after k more headers, dt seconds apart, were added on its tip.
RECURSIVE Extended(_, _, _)
Extended(c, dt, k) ==
  IF k = 0 \/ c.tip \notin DOMAIN c.headers THEN c
  ELSE Extended(add_header(c, NextHeader(c, dt), FALSE,
                           GENESIS_TIME + MAX_FUTURE_DRIFT_SECS, None).chain, dt, k - 1)

BaseChain(dt, k) == Extended(with_genesis, dt, k)

\* Chains to start from: the genesis alone, and chains one header short of
\* the first retarget boundary, mined on schedule or all in the same second.
BaseChains ==
  {with_genesis} \cup
  {BaseChain(dt, DIFFICULTY_WINDOW - 1) : dt \in {0, TARGET_BLOCK_TIME_SECS}}

ParentOf(c, ha) == c.headers[ha].prev_block_hash

\* Parents a received header may name.
PrevChoices(c) ==
  {ZERO_HASH, UnknownHash, c.tip, ParentOf(c, c.tip)}
  \cup (IF last.op = "add_header" /\ last.hash \in DOMAIN c.headers THEN {last.hash} ELSE {})

\* Timestamps a header that names `prev` may carry: before its parent, equal
\* to it, one block interval later, and beyond the allowed clock drift.
TimeChoices(c, prev) ==
  IF prev \in DOMAIN c.headers
  THEN {c.headers[prev].time - 1, c.headers[prev].time,
        c.headers[prev].time + TARGET_BLOCK_TIME_SECS,
        GENESIS_TIME + 2 * MAX_FUTURE_DRIFT_SECS + 1}
  ELSE {GENESIS_TIME, GENESIS_TIME + 2 * MAX_FUTURE_DRIFT_SECS + 1}

\* Compact targets a header that names `prev` may carry: the expected one and
\* others.
BitsChoices(c, prev) ==
  {0, INITIAL_BITS, EasyBits, LowBits, ZeroMantissaBits}
  \cup (IF prev \in DOMAIN c.headers
        THEN {expected_bits(c, Some(c.headers[prev]), c.heights[prev] + 1, st).val :
                st \in StartChoices(c, prev)}
        ELSE {})

\* Headers a peer may send to a node whose chain is c, and headers it has.
HeaderInputs(c) ==
  UNION {{HeaderOf(prev, GENESIS_MERKLE_ROOT, time, bits, nonce) :
            time \in TimeChoices(c, prev), bits \in BitsChoices(c, prev), nonce \in {0, 1}} :
         prev \in PrevChoices(c)}
  \cup {c.headers[c.tip], GenesisHeader}

\* A peer's header reaches ChainState::add_header.
ChainAddHeader ==
  /\ steps < MaxAdds
  /\ \E header \in HeaderInputs(chain), now \in NowChoices :
       \E start \in StartChoices(chain, header.prev_block_hash) :
         \E r \in {add_header(chain, header, no_pow_check, now, start)} :
         /\ chain' = r.chain
         /\ last' = [op |-> "add_header", ok |-> r.ok, err |-> r.err,
                     hash |-> IF r.ok THEN header_hash(header) ELSE last.hash,
                     known |-> header_hash(header) \in DOMAIN chain.headers]
  /\ steps' = steps + 1
  /\ UNCHANGED <<utxos, no_pow_check, permVars, nodeVars, auxVars>>

ChainInit ==
  /\ chain \in BaseChains
  /\ no_pow_check \in BOOLEAN
  /\ replica = with_genesis
  /\ pending = [a |-> {}, b |-> {}]
  /\ NodeAtStart
  /\ utxos = EmptyMap
  /\ last = [op |-> "none", ok |-> TRUE, err |-> "Ok", hash |-> ZERO_HASH,
             known |-> FALSE]
  /\ steps = 0

ChainNext == ChainAddHeader

SpecChain == ChainInit /\ [][ChainNext]_vars
(***************************************************************************)
(* Properties of the header chain.                                         *)
(***************************************************************************)
TipWork(c) == c.work[c.tip]
TipHeight(c) == c.heights[c.tip]

\* The tip is stored, no stored header has more work, and none of equal work
\* is higher.
TipIsBest ==
  /\ chain.tip \in DOMAIN chain.headers
  /\ \A ha \in DOMAIN chain.headers :
       /\ ~BigLt(TipWork(chain), chain.work[ha])
       /\ chain.work[ha] = TipWork(chain) => chain.heights[ha] <= TipHeight(chain)

\* The tip moves only to a header inserted by this call, of strictly greater
\* work or of equal work and strictly greater height.
TipMovesToBetter ==
  chain'.tip # chain.tip =>
    /\ chain'.tip \notin DOMAIN chain.headers
    /\ \/ BigLt(TipWork(chain), TipWork(chain'))
       \/ TipWork(chain') = TipWork(chain) /\ TipHeight(chain') > TipHeight(chain)

\* C7: after any sequence of add_header calls the tip is a stored header of
\* maximal cumulative work and, among those, of maximal height; and the tip
\* changes only when a newly inserted header has strictly greater work, or
\* equal work and strictly greater height.
TipSelection == []TipIsBest /\ [][TipMovesToBetter]_vars

\* The tip moved to a header of more work that is lower than another stored one.
TipMovedToLowerHeight ==
  /\ last.op = "add_header" /\ last.ok /\ ~last.known
  /\ chain.tip = last.hash
  /\ \E ha \in DOMAIN chain.headers : chain.heights[ha] > TipHeight(chain)

\* Every header that names a parent has it stored, is one higher, and carries
\* the parent's work plus the work of its own bits; the three maps have the
\* same keys.
ChainLinked ==
  /\ DOMAIN chain.heights = DOMAIN chain.headers
  /\ DOMAIN chain.work = DOMAIN chain.headers
  /\ \A ha \in DOMAIN chain.headers :
       LET prev == chain.headers[ha].prev_block_hash IN
       prev # ZERO_HASH =>
         /\ prev \in DOMAIN chain.headers
         /\ chain.heights[ha] = chain.heights[prev] + 1
         /\ chain.work[ha] = BigAdd(chain.work[prev], work_from_bits(chain.headers[ha].bits).val)

\* A call keeps every stored header with its height and work.
StoredKept ==
  \A ha \in DOMAIN chain.headers :
    /\ ha \in DOMAIN chain'.headers
    /\ chain'.headers[ha] = chain.headers[ha]
    /\ chain'.heights[ha] = chain.heights[ha]
    /\ chain'.work[ha] = chain.work[ha]

\* C9: after any sequence of add_header calls, accepted or rejected, every
\* stored header other than a genesis-form one has its parent stored, height
\* one above the parent's and cumulative work equal to the parent's plus
\* work_from_bits of its bits; headers, heights and work have the same key
\* set; and no stored header is ever removed or changed.
ChainStructure == []ChainLinked /\ [][StoredKept]_vars

\* A header stored at the first retarget boundary, with positive work, next to
\* a rejected call.
RetargetedHeaderStored ==
  /\ last.op = "add_header" /\ ~last.ok
  /\ \E ha \in DOMAIN chain.headers :
       /\ chain.heights[ha] = DIFFICULTY_WINDOW
       /\ chain.work[ha] # <<>>

\* The bits add_header expects of the stored header ha, for each entry that the
\* window-start lookup may return.
ExpectedBitsOf(c, ha) ==
  LET prev == c.headers[ha].prev_block_hash IN
  IF prev = ZERO_HASH THEN {INITIAL_BITS}
  ELSE {expected_bits(c, Some(c.headers[prev]), c.heights[ha], st).val :
          st \in StartChoices(c, prev)}

\* C10: every stored header other than the built-in genesis carries exactly
\* the bits expected for its position: its parent's bits between retarget
\* boundaries, the retargeted value at a boundary, INITIAL_BITS when its prev
\* is all zero (a header with other bits is rejected and the chain left as it
\* was).
StoredBitsAreExpected ==
  \A ha \in DOMAIN chain.headers \ {GenesisHash} :
    chain.headers[ha].bits \in ExpectedBitsOf(chain, ha)
(***************************************************************************)
(* Two nodes that are offered the same headers, each in an order of its    *)
(* own.                                                                    *)
(***************************************************************************)
MaxOffered == 3

\* Two children of the genesis that differ in their time, a grandchild, a
\* header of genesis form that carries work, and its child.
OfferA1 == HeaderOf(GenesisHash, GENESIS_MERKLE_ROOT, GENESIS_TIME + TARGET_BLOCK_TIME_SECS,
                    INITIAL_BITS, 0)
OfferB1 == HeaderOf(GenesisHash, GENESIS_MERKLE_ROOT, GENESIS_TIME, INITIAL_BITS, 0)
OfferA2 == HeaderOf(header_hash(OfferA1), GENESIS_MERKLE_ROOT,
                    GENESIS_TIME + 2 * TARGET_BLOCK_TIME_SECS, INITIAL_BITS, 0)
OfferW0 == HeaderOf(ZERO_HASH, GENESIS_MERKLE_ROOT, GENESIS_TIME, LowBits, 0)
OfferW1 == HeaderOf(header_hash(OfferW0), GENESIS_MERKLE_ROOT, GENESIS_TIME, LowBits, 0)
OfferedHeaders == {OfferA1, OfferB1, OfferA2, OfferW0, OfferW1}

\* The sets of headers that are offered to both nodes.
OfferedSets == {S \in SUBSET OfferedHeaders : Cardinality(S) <= MaxOffered}

\* The first node is offered one of its pending headers.
PermOfferA ==
  /\ \E header \in pending.a :
       /\ chain' = add_header(chain, header, no_pow_check, GENESIS_TIME, None).chain
       /\ pending' = [pending EXCEPT !.a = @ \ {header}]
  /\ UNCHANGED <<utxos, no_pow_check, replica, nodeVars, auxVars, last, steps>>

\* The second node is offered one of its pending headers, after the first node
\* was offered all of them.
PermOfferB ==
  /\ pending.a = {}
  /\ \E header \in pending.b :
       /\ replica' = add_header(replica, header, no_pow_check, GENESIS_TIME, None).chain
       /\ pending' = [pending EXCEPT !.b = @ \ {header}]
  /\ UNCHANGED <<utxos, no_pow_check, chain, nodeVars, auxVars, last, steps>>

PermInit ==
  /\ chain = with_genesis
  /\ replica = with_genesis
  /\ no_pow_check = FALSE
  /\ \E S \in OfferedSets : pending = [a |-> S, b |-> S]
  /\ NodeAtStart
  /\ utxos = EmptyMap
  /\ last = NoLast
  /\ steps = 0

PermNext == PermOfferA \/ PermOfferB

SpecPerm == PermInit /\ [][PermNext]_vars

AllOffered == pending.a = {} /\ pending.b = {}

\* C8 as stated: offering the same headers in any two orders ends with the
\* same best tip.
SameTipInAnyOrder == AllOffered => chain.tip = replica.tip

\* Some stored header other than the tip has the tip's work and height.
TipTied(c) ==
  \E ha \in DOMAIN c.headers \ {c.tip} :
    c.work[ha] = TipWork(c) /\ c.heights[ha] = TipHeight(c)

\* C8, amended: when two orders of the same headers leave the same headers
\* stored (each header was offered after its parent), the two best tips have
\* the same cumulative work and the same height, and are the same header
\* unless several stored headers tie on both.
SameBestInAnyOrder ==
  (AllOffered /\ DOMAIN chain.headers = DOMAIN replica.headers) =>
    /\ TipWork(chain) = TipWork(replica)
    /\ TipHeight(chain) = TipHeight(replica)
    /\ ~TipTied(chain) => chain.tip = replica.tip

\* Two orders that stored the same headers, one of them rejected by both
\* nodes, and ended with different tips.
DifferentTipsOnTie ==
  /\ AllOffered
  /\ DOMAIN chain.headers = DOMAIN replica.headers
  /\ Cardinality(DOMAIN chain.headers) = MaxOffered
  /\ chain.tip # replica.tip

(***************************************************************************)
(* A node that receives Tx, Headers and Block messages from its peers.     *)
(***************************************************************************)
MaxMsgs == 2

\* The UTXO set the node loads at start (load_utxos from a snapshot file).
NodeUtxos == (OutPointOf(<<5>>, 0) :> [value |-> BigFromInt(100), script_pubkey |-> <<>>])

\* The reading of the system clock while a message is handled.
NodeClock == {GENESIS_TIME + MAX_FUTURE_DRIFT_SECS}

NodeOf ==
  [utxos |-> utxos, chain |-> chain, blocks |-> blocks, applied |-> applied,
   mempool |-> mempool, seen |-> seen]

NodeIs(n) ==
  /\ utxos' = n.utxos
  /\ chain' = n.chain
  /\ blocks' = n.blocks
  /\ applied' = n.applied
  /\ mempool' = n.mempool
  /\ seen' = n.seen

\* ChainState::with_genesis, the loaded UTXO set, and everything else empty.
FreshNode ==
  [utxos |-> NodeUtxos, chain |-> with_genesis, blocks |-> EmptyMap,
   applied |-> AppliedState(GenesisHash), mempool |-> EmptyMempool, seen |-> NoSeen]

PayTo(value) == [value |-> value, script_pubkey |-> <<>>]

\* A coinbase that pays `value`; the tag tells the coinbases of two blocks apart.
Coinbase(value, tag) == [TxOf(<<>>, <<PayTo(value)>>) EXCEPT !.lock_time = tag]

\* Transactions that spend an entry of `map` and leave a fee of one unit.
FeeTxs(map) ==
  {TxOf(<<TxInOf(op)>>, <<PayTo(BigSub(map[op].value, <<1>>))>>) : op \in DOMAIN map}

\* Transactions that pay out one unit more than the entry of `map` they spend.
OverspendTxs(map) ==
  {TxOf(<<TxInOf(op)>>, <<PayTo(BigAdd(map[op].value, <<1>>))>>) : op \in DOMAIN map}

\* Transactions that name an entry of `map` twice and pay out less than twice
\* its value.
DoubleInputTxs(map) ==
  {TxOf(<<TxInOf(op), TxInOf(op)>>, <<PayTo(BigAdd(map[op].value, <<1>>))>>) :
     op \in DOMAIN map}

\* Transactions whose outputs add up to more than a u64 holds.
OverflowTxs(map) ==
  {TxOf(<<TxInOf(op)>>, <<PayTo(U64_MAX), PayTo(<<1>>)>>) : op \in DOMAIN map}

\* The transactions a peer may send to a node whose UTXO set is `map`.
NodeTxInputs(map) ==
  FeeTxs(map) \cup OverspendTxs(map) \cup DoubleInputTxs(map) \cup OverflowTxs(map)
  \cup {TxOf(<<TxInOf(MissingOutPoint)>>, <<>>), OversizeScriptTx}

\* The stored headers a received block may extend: the best tip, the applied
\* tip, and the headers at most one below the height of the best tip.
NodeParents(n) ==
  {ha \in DOMAIN n.chain.headers :
     \/ ha \in {n.chain.tip, n.applied.tip}
     \/ n.chain.heights[ha] + 1 >= n.chain.heights[n.chain.tip]}

\* The block with transactions txs on the stored header prev, one block
\* interval later and with the bits of prev (no retarget boundary in between).
ChildOf(c, prev, txs) ==
  BlockOf(prev, c.headers[prev].time + TARGET_BLOCK_TIME_SECS, c.headers[prev].bits, 0, txs)

\* The transaction lists of the blocks a peer may send on top of prev: on the
\* best tip a coinbase that claims the subsidy, one that claims a unit more
\* (alone and with a transaction that pays that unit as a fee), a block with an
\* overspending transaction, no transactions, and no coinbase; elsewhere a
\* coinbase that claims the subsidy or a unit less.
BlockTxsOn(n, prev) ==
  LET height == n.chain.heights[prev] + 1
      subsidy == block_subsidy(height)
  IN IF prev = n.chain.tip
     THEN {<<Coinbase(subsidy, height)>>, <<Coinbase(BigAdd(subsidy, <<1>>), height)>>, <<>>}
          \cup {<<Coinbase(BigAdd(subsidy, <<1>>), height), tx>> : tx \in FeeTxs(n.utxos)}
          \cup {<<Coinbase(subsidy, height), tx>> : tx \in OverspendTxs(n.utxos)}
          \cup {<<tx>> : tx \in FeeTxs(n.utxos)}
     ELSE {<<Coinbase(subsidy, height)>>, <<Coinbase(BigSub(subsidy, <<1>>), height)>>}

\* The blocks a peer may send: the above, a block whose header carries another
\* merkle root than its transactions have, and a block on an unknown header.
BlockInputs(n) ==
  UNION {{ChildOf(n.chain, prev, txs) : txs \in BlockTxsOn(n, prev)} : prev \in NodeParents(n)}
  \cup {[ChildOf(n.chain, n.chain.tip, <<Coinbase(INITIAL_SUBSIDY, 0)>>)
           EXCEPT !.header.merkle_root = GENESIS_MERKLE_ROOT],
        BlockOf(UnknownHash, GENESIS_TIME, INITIAL_BITS, 0, <<Coinbase(INITIAL_SUBSIDY, 0)>>)}

\* The header lists a peer may send: the next header, the next two, and a
\* list whose first header is rejected.
HeadersInputs(n) ==
  LET height == n.chain.heights[n.chain.tip] + 1
      b1 == ChildOf(n.chain, n.chain.tip, <<Coinbase(block_subsidy(height), height)>>)
      b2 == BlockOf(header_hash(b1.header), b1.header.time + TARGET_BLOCK_TIME_SECS,
                    b1.header.bits, 0, <<Coinbase(block_subsidy(height + 1), height + 1)>>)
  IN {<<b1.header>>, <<b1.header, b2.header>>,
      <<HeaderOf(UnknownHash, GENESIS_MERKLE_ROOT, GENESIS_TIME, INITIAL_BITS, 0), b1.header>>}

\* What is known of the last message: the handler's result, the transaction
\* offered to add_tx, and the calls of apply_block_with_undo made.
NodeLast(op, ok, err, tx, calls) ==
  [op |-> op, ok |-> ok, err |-> err, tx |-> tx, calls |-> calls]

\* handle_connection, P2pMessage::Tx
NodeTx ==
  /\ steps < MaxMsgs
  /\ \E tx \in NodeTxInputs(utxos) :
       \E r \in handle_tx(NodeOf, tx) :
         /\ NodeIs(r.node)
         /\ last' = NodeLast(r.op, r.ok, r.err, IF r.op = "add_tx" THEN tx ELSE NoTx, <<>>)
  /\ steps' = steps + 1
  /\ UNCHANGED <<no_pow_check, permVars, auxVars>>

\* handle_connection, P2pMessage::Headers
NodeHeaders ==
  /\ steps < MaxMsgs
  /\ \E headers \in HeadersInputs(NodeOf), now \in NodeClock :
       \E c \in add_headers(chain, no_pow_check, headers, 1, now) :
         /\ chain' = c
         /\ last' = NodeLast("headers", TRUE, "Ok", NoTx, <<>>)
  /\ steps' = steps + 1
  /\ UNCHANGED <<utxos, no_pow_check, permVars, nodeVars, auxVars>>

\* handle_connection, P2pMessage::Block
NodeBlock ==
  /\ steps < MaxMsgs
  /\ \E block \in BlockInputs(NodeOf), now \in NodeClock :
       \E start \in StartChoices(chain, block.header.prev_block_hash) :
         \E r \in handle_block(NodeOf, no_pow_check, block, now, start) :
           /\ NodeIs(r.node)
           /\ last' = NodeLast(r.op, r.ok, r.err, NoTx, r.calls)
  /\ steps' = steps + 1
  /\ UNCHANGED <<no_pow_check, permVars, auxVars>>

\* The node after it handled the blocks of a list, one Block message each.
RECURSIVE NodeAfter(_, _, _)
NodeAfter(n, list, i) ==
  IF i > Len(list) THEN n
  ELSE NodeAfter((CHOOSE r \in handle_block(n, FALSE, list[i],
                                            GENESIS_TIME + MAX_FUTURE_DRIFT_SECS, None) :
                    TRUE).node,
                 list, i + 1)

\* Two blocks on the genesis: the first is applied, the second is stored as a
\* side branch.
ForkA1 == ChildOf(with_genesis, GenesisHash, <<Coinbase(INITIAL_SUBSIDY, 1)>>)
ForkB1 == ChildOf(with_genesis, GenesisHash, <<Coinbase(BigSub(INITIAL_SUBSIDY, <<1>>), 1)>>)

\* The nodes to start from: a node at start, and a node that has handled a
\* block and a sibling of it.
NodeStarts == {FreshNode, NodeAfter(FreshNode, <<ForkA1, ForkB1>>, 1)}

NodeInit ==
  /\ \E n \in NodeStarts :
       /\ utxos = n.utxos
       /\ chain = n.chain
       /\ blocks = n.blocks
       /\ applied = n.applied
       /\ mempool = n.mempool
       /\ seen = n.seen
  /\ AuxAtStart
  /\ no_pow_check = FALSE
  /\ replica = with_genesis
  /\ pending = [a |-> {}, b |-> {}]
  /\ last = NodeLast("none", TRUE, "Ok", NoTx, <<>>)
  /\ steps = 0

NodeNext == NodeTx \/ NodeHeaders \/ NodeBlock

SpecNode == NodeInit /\ [][NodeNext]_vars
(***************************************************************************)
(* Properties of the node.                                                 *)
(***************************************************************************)
\* The stored path from the built-in genesis up to tip, and the result of
\* applying its blocks in order to the UTXO set the node loaded at start.
PathFromGenesis(tip) == path_from_ancestor(chain, GenesisHash, tip)
ReplayTo(tip) ==
  apply_new_path(AppliedState(GenesisHash), chain, blocks, NodeUtxos, no_pow_check,
                 PathFromGenesis(tip).val, 1, <<>>)

\* C3: in every reachable state, after reorg_to_tip calls that succeeded or
\* failed, the UTXO set equals the result of applying in order, starting from
\* the initial set, the blocks on the path genesis -> applied.tip.
UtxoIsAppliedPath ==
  /\ PathFromGenesis(applied.tip).ok
  /\ ReplayTo(applied.tip).ok
  /\ utxos = ReplayTo(applied.tip).map

\* The exact sum of the values of a list of outputs.
RECURSIVE TotalOf(_, _)
TotalOf(outs, i) == IF i > Len(outs) THEN <<>> ELSE BigAdd(outs[i].value, TotalOf(outs, i + 1))

TotalOut(tx) == TotalOf(tx.vout, 1)
TotalIn(tx, map) == TotalOf([i \in 1..Len(tx.vin) |-> map[tx.vin[i].prevout]], 1)

\* Every input is present and named once, and the inputs cover the outputs.
Conserved(tx, map) ==
  /\ PrevoutsOf(tx) \subseteq DOMAIN map
  /\ Cardinality(PrevoutsOf(tx)) = Len(tx.vin)
  /\ BigLe(TotalOut(tx), TotalIn(tx, map))

\* Every input is present and the inputs do not cover the outputs.
Underfunded(tx, map) ==
  /\ PrevoutsOf(tx) \subseteq DOMAIN map
  /\ BigLt(TotalIn(tx, map), TotalOut(tx))

\* A check that comes before the comparison of the two sums fails: the bounds
\* of validate, the duplicate-input scan, or a sum that overflows a u64.
FailsBeforeComparison(tx, map) ==
  \/ validate(tx) # "Ok"
  \/ Cardinality(PrevoutsOf(tx)) # Len(tx.vin)
  \/ ~BigLe(TotalIn(tx, map), U64_MAX)
  \/ ~BigLe(TotalOut(tx), U64_MAX)

\* The mempool holds the transaction or one that spends one of its inputs.
ConflictsInMempool(tx, mp) ==
  \/ validate(tx) = "Ok" /\ txid_v2(tx) \in DOMAIN mp.map_v2
  \/ PrevoutsOf(tx) \cap mp.spent # {}

\* The UTXO set on which block apply reached the i-th transaction of a call,
\* and whether it reached it.
BeforeTx(call, i) ==
  apply_block_txs(SubSeq(call.block.txs, 1, i - 1), call.pre, 1, <<>>, <<>>)

ReachedTx(call, i) ==
  /\ txids_err(call.block.txs, 1) = "Ok"
  /\ merkle_root(txids_v2(call.block.txs)) = call.block.header.merkle_root
  /\ BeforeTx(call, i).ok

\* Every transaction that add_tx or block apply accepted is conserved on the
\* UTXO set it was accepted on.
AcceptedAreConserved ==
  /\ (last.op = "add_tx" /\ last.ok) => Conserved(last.tx, utxos)
  /\ last.op = "block" =>
       \A k \in 1..Len(last.calls) : \A i \in 2..Len(last.calls[k].block.txs) :
         (ReachedTx(last.calls[k], i) /\ BeforeTx(last.calls[k], i + 1).ok)
           => Conserved(last.calls[k].block.txs[i], BeforeTx(last.calls[k], i).map)

\* C5 as stated: every non-coinbase transaction accepted by add_tx or by block
\* apply has all inputs present, none twice, and inputs that cover the
\* outputs; and a transaction whose inputs do not cover its outputs is
\* rejected with ValueNotConserved.
ConservedOrValueNotConserved ==
  /\ AcceptedAreConserved
  /\ (last.op = "add_tx" /\ Underfunded(last.tx, utxos))
       => ~last.ok /\ last.err = "ValueNotConserved"
  /\ last.op = "block" =>
       \A k \in 1..Len(last.calls) : \A i \in 2..Len(last.calls[k].block.txs) :
         (ReachedTx(last.calls[k], i)
            /\ Underfunded(last.calls[k].block.txs[i], BeforeTx(last.calls[k], i).map))
           => ~last.calls[k].ok /\ last.calls[k].err = "ValueNotConserved"

\* C5, amended: every accepted non-coinbase transaction is conserved; a
\* transaction whose inputs do not cover its outputs is rejected on every path,
\* with ValueNotConserved exactly when no earlier check fails (the bounds of
\* validate, DuplicateTx and DoubleSpend in the mempool, the duplicate-input
\* scan, a sum that overflows), and with the error of that check otherwise.
ConservedOrRejected ==
  /\ AcceptedAreConserved
  /\ (last.op = "add_tx" /\ Underfunded(last.tx, utxos))
       => /\ ~last.ok
          /\ last.err = "ValueNotConserved"
               <=> ~(FailsBeforeComparison(last.tx, utxos)
                     \/ ConflictsInMempool(last.tx, mempool))
  /\ last.op = "block" =>
       \A k \in 1..Len(last.calls) : \A i \in 2..Len(last.calls[k].block.txs) :
         (ReachedTx(last.calls[k], i)
            /\ Underfunded(last.calls[k].block.txs[i], BeforeTx(last.calls[k], i).map))
           => /\ ~last.calls[k].ok
              /\ last.calls[k].err = "ValueNotConserved"
                   <=> ~FailsBeforeComparison(last.calls[k].block.txs[i],
                                              BeforeTx(last.calls[k], i).map)

\* A block with a fee-paying transaction was applied while the mempool holds
\* a transaction that add_tx accepted.
SpendAcceptedInBlockAndMempool ==
  /\ last.op = "block" /\ last.ok
  /\ \E k \in 1..Len(last.calls) :
       /\ Len(last.calls[k].block.txs) = 2
       /\ Conserved(last.calls[k].block.txs[2], BeforeTx(last.calls[k], 2).map)
  /\ DOMAIN mempool.map_v2 # {}

\* The exact sum of the fees of the transactions of a call after the first.
RECURSIVE TotalFees(_, _)
TotalFees(call, i) ==
  IF i > Len(call.block.txs) THEN <<>>
  ELSE BigAdd(BigSub(TotalIn(call.block.txs[i], BeforeTx(call, i).map),
                     TotalOut(call.block.txs[i])),
              TotalFees(call, i + 1))

\* The receipt that belongs to the i-th transaction of a call: the entries of
\* its inputs, and the outpoints of its outputs, each in order.
ReceiptFor(call, i) ==
  LET tx == call.block.txs[i] IN
  [removed |-> [j \in 1..Len(tx.vin) |->
                  <<tx.vin[j].prevout, BeforeTx(call, i).map[tx.vin[j].prevout]>>],
   inserted |-> make_outpoints(tx)]

\* C6: block apply returns success only for a block with at least one
\* transaction, whose header carries the merkle root of the txid_v2 list,
\* whose first transaction has no inputs and pays out at most
\* subsidy(height) plus the fees of the other transactions; and it then
\* returns one receipt per transaction, in transaction order.
BlockApplyChecks ==
  last.op = "block" =>
    \A k \in 1..Len(last.calls) :
      LET call == last.calls[k] IN
      call.ok =>
        /\ Len(call.block.txs) >= 1
        /\ call.block.header.merkle_root = merkle_root(txids_v2(call.block.txs))
        /\ call.block.txs[1].vin = <<>>
        /\ BigLe(TotalOut(call.block.txs[1]),
                 BigAdd(block_subsidy(call.height), TotalFees(call, 2)))
        /\ Len(call.receipts) = Len(call.block.txs)
        /\ \A i \in 1..Len(call.block.txs) : call.receipts[i] = ReceiptFor(call, i)

\* A block was applied whose coinbase pays out more than the subsidy, the rest
\* being the fee of its second transaction.
BlockWithFeeApplied ==
  /\ last.op = "block" /\ last.ok
  /\ \E k \in 1..Len(last.calls) :
       /\ last.calls[k].ok
       /\ Len(last.calls[k].receipts) = 2
       /\ BigLt(block_subsidy(last.calls[k].height), TotalOut(last.calls[k].block.txs[1]))

(***************************************************************************)
(* reorg_to_tip called on chains whose tip is any stored header.           *)
(***************************************************************************)
MaxReorgs == 3

\* Blocks on the two branches of ForkA1 and ForkB1: a second block on each,
\* the one on ForkA1 with a transaction that spends the loaded entry, and a
\* sibling whose coinbase claims more than the subsidy.
ForkA2 ==
  ChildOf(NodeAfter(FreshNode, <<ForkA1>>, 1).chain, header_hash(ForkA1.header),
          <<Coinbase(BigAdd(INITIAL_SUBSIDY, <<1>>), 2),
            TxOf(<<TxInOf(OutPointOf(<<5>>, 0))>>, <<PayTo(BigFromInt(99))>>)>>)
ForkB2 ==
  ChildOf(NodeAfter(FreshNode, <<ForkB1>>, 1).chain, header_hash(ForkB1.header),
          <<Coinbase(INITIAL_SUBSIDY, 2)>>)
ForkC1 == ChildOf(with_genesis, GenesisHash, <<Coinbase(BigAdd(INITIAL_SUBSIDY, <<1>>), 1)>>)

\* The nodes to start from, each after a list of Block messages.
ReorgStarts ==
  {NodeAfter(FreshNode, list, 1) :
     list \in {<<ForkA1, ForkB1>>, <<ForkA1, ForkA2, ForkB1>>, <<ForkA1, ForkB1, ForkB2>>,
               <<ForkA1, ForkA2, ForkB1, ForkC1>>}}

NoReorg == [ok |-> FALSE, from |-> ZERO_HASH, pre |-> EmptyMap, undo |-> EmptyMap,
            evicted |-> 0, calls |-> 0]

\* reorg_to_tip with a ChainState whose tip is `target` (set as the test
\* reorg_switches_tip_and_utxo_state sets it); last holds this call and the
\* call before it.
ReorgTo ==
  /\ steps < MaxReorgs
  /\ \E target \in DOMAIN chain.headers :
       \E r \in {reorg_to_tip(applied, [chain EXCEPT !.tip = target], blocks, utxos,
                              no_pow_check)} :
         /\ chain' = [chain EXCEPT !.tip = target]
         /\ applied' = r.applied
         /\ utxos' = r.map
         /\ last' = [op |-> "reorg", err |-> r.err,
                     this |-> [ok |-> r.ok, from |-> applied.tip, pre |-> utxos,
                               undo |-> applied.undo, evicted |-> Len(r.evicted),
                               calls |-> Len(r.calls)],
                     prev |-> last.this]
  /\ steps' = steps + 1
  /\ UNCHANGED <<no_pow_check, permVars, blocks, mempool, seen, auxVars>>

ReorgInit ==
  /\ \E n \in ReorgStarts :
       /\ utxos = n.utxos
       /\ chain = n.chain
       /\ blocks = n.blocks
       /\ applied = n.applied
       /\ mempool = n.mempool
       /\ seen = n.seen
  /\ AuxAtStart
  /\ no_pow_check = FALSE
  /\ replica = with_genesis
  /\ pending = [a |-> {}, b |-> {}]
  /\ last = [op |-> "none", err |-> "Ok", this |-> NoReorg, prev |-> NoReorg]
  /\ steps = 0

ReorgNext == ReorgTo

SpecReorg == ReorgInit /\ [][ReorgNext]_vars

\* The hashes of the branch of tip a down to its common ancestor with b.
BranchOf(c, a, b) ==
  LET path == path_to_ancestor(c, a, common_ancestor(c, a, b).val).val
  IN {path[i] : i \in 1..Len(path)}

\* C4: a successful reorg from the applied tip A to a stored tip B, followed
\* by a successful reorg back to A, leaves the UTXO set as it was before the
\* first reorg, applied.tip = A, and undo data for the blocks of A's branch.
ReorgRoundTrip ==
  (last.op = "reorg" /\ last.this.ok /\ last.prev.ok /\ chain.tip = last.prev.from)
    => /\ utxos = last.prev.pre
       /\ applied.tip = last.prev.from
       /\ \A ha \in BranchOf(chain, last.prev.from, last.this.from) :
            ha \in DOMAIN applied.undo /\ applied.undo[ha] = last.prev.undo[ha]

\* A round trip between two branches: the first reorg rolled back a block
\* with a spending transaction and applied a block, the second applied two.
RoundTripAcrossFork ==
  /\ last.op = "reorg" /\ last.this.ok /\ last.prev.ok
  /\ chain.tip = last.prev.from
  /\ last.prev.evicted > 0 /\ last.prev.calls > 0
  /\ last.this.calls = 2
  /\ utxos = last.prev.pre

(***************************************************************************)
(* A mempool under add_tx, remove_tx and remove_tx_v1, against a UTXO set  *)
(* that does not change.                                                   *)
(***************************************************************************)
MaxPoolOps == 3

PoolOutPoint(n) == OutPointOf(<<n>>, 0)

\* Four unspent outputs of 2000 units each.
PoolUtxos == [op \in {PoolOutPoint(n) : n \in 1..4} |-> PayTo(BigFromInt(2000))]

\* A transaction of 88 bytes that spends the n-th output and leaves `fee`.
PoolSpend(n, fee) == TxOf(<<TxInOf(PoolOutPoint(n))>>, <<PayTo(BigFromInt(2000 - fee))>>)

\* Transactions with the fee rates 10, 20 and 5 on distinct outputs.
Rate10Tx == PoolSpend(1, 880)
Rate20Tx == PoolSpend(2, 1760)
Rate5Tx == PoolSpend(3, 440)

\* Further transactions: a second one with the fee rate 10, on the output
\* Rate5Tx spends; one of 104 bytes with two outputs; one of 136 bytes that
\* spends two outputs, the second of them the output Rate10Tx spends; and one
\* whose txid cannot be computed.
TwoOutputTx == TxOf(<<TxInOf(PoolOutPoint(4))>>, <<PayTo(BigFromInt(100)), PayTo(BigFromInt(100))>>)
TwoInputTx == TxOf(<<TxInOf(PoolOutPoint(4)), TxInOf(PoolOutPoint(1))>>, <<PayTo(BigFromInt(1))>>)
PoolTxs == {Rate10Tx, Rate20Tx, Rate5Tx, PoolSpend(3, 880), TwoOutputTx, TwoInputTx,
            OversizeScriptTx}

\* The configurations of the mempool: the default one, one with room for two
\* transactions, one with room for 200 bytes, one without room, and one with
\* a fee rate floor of 6 units per byte.
PoolConfigs ==
  {MempoolConfigDefault,
   [MempoolConfigDefault EXCEPT !.max_txs = 2],
   [MempoolConfigDefault EXCEPT !.max_total_bytes = 200],
   [MempoolConfigDefault EXCEPT !.max_txs = 0],
   [MempoolConfigDefault EXCEPT !.min_fee_rate = 6]}

NoPoolOp == [op |-> "none", ok |-> TRUE, err |-> "Ok", named |-> MissingOutPoint, tx |-> NoTx,
             pre |-> EmptyMempool, offered |-> <<>>]

\* Mempool::add_tx
PoolAddTx ==
  /\ steps < MaxPoolOps
  /\ \E tx \in PoolTxs :
       \E r \in add_tx(mempool, cfg, tx, utxos) :
         /\ mempool' = r.mp
         /\ last' = [op |-> "add_tx", ok |-> r.ok,
                     err |-> r.err,
                     named |-> IF r.err = "DoubleSpend" THEN r.prevout ELSE MissingOutPoint,
                     tx |-> tx, pre |-> mempool, offered |-> Append(last.offered, tx)]
  /\ steps' = steps + 1
  /\ UNCHANGED <<utxos, chainVars, permVars, blocks, applied, seen, auxVars>>

\* Mempool::remove_tx
PoolRemoveTx ==
  /\ steps < MaxPoolOps
  /\ \E tx \in PoolTxs \ {OversizeScriptTx} :
       /\ mempool' = remove_tx(mempool, txid_v2(tx))
       /\ last' = [op |-> "remove_tx", ok |-> txid_v2(tx) \in DOMAIN mempool.map_v2,
                   err |-> "Ok", named |-> MissingOutPoint, tx |-> tx, pre |-> mempool,
                   offered |-> last.offered]
  /\ steps' = steps + 1
  /\ UNCHANGED <<utxos, chainVars, permVars, blocks, applied, seen, auxVars>>

\* Mempool::remove_tx_v1
PoolRemoveTxV1 ==
  /\ steps < MaxPoolOps
  /\ \E tx \in PoolTxs \ {OversizeScriptTx} :
       /\ mempool' = remove_tx_v1(mempool, txid_v1(tx))
       /\ last' = [op |-> "remove_tx_v1", ok |-> txid_v1(tx) \in DOMAIN mempool.map_v1,
                   err |-> "Ok", named |-> MissingOutPoint, tx |-> tx, pre |-> mempool,
                   offered |-> last.offered]
  /\ steps' = steps + 1
  /\ UNCHANGED <<utxos, chainVars, permVars, blocks, applied, seen, auxVars>>

\* The sizes a template may have: less than a coinbase, a coinbase and one
\* 88-byte or 104-byte transaction, a coinbase and two 88-byte transactions,
\* and room for everything.
TemplateSizes == {39, 150, 216, 1000}

\* build_block_template on the mempool, on top of the genesis.
PoolTemplate ==
  /\ steps < MaxPoolOps
  /\ \E coinbase \in {Coinbase(INITIAL_SUBSIDY, 1), OversizeScriptTx},
        max_block_bytes \in TemplateSizes,
        txid_order \in Perms(DOMAIN mempool.map_v2) :
       last' = [op |-> "template", ok |-> TRUE, err |-> "Ok", named |-> MissingOutPoint,
                tx |-> coinbase, pre |-> mempool, offered |-> last.offered,
                max_block_bytes |-> max_block_bytes, txid_order |-> txid_order,
                out |-> build_block_template(mempool, coinbase, GenesisHash,
                                             GENESIS_TIME + TARGET_BLOCK_TIME_SECS,
                                             INITIAL_BITS, 1, max_block_bytes, txid_order)]
  /\ steps' = steps + 1
  /\ UNCHANGED <<utxos, chainVars, permVars, nodeVars, auxVars>>

PoolInit ==
  /\ mempool = EmptyMempool
  /\ cfg \in PoolConfigs
  /\ NetAtStart
  /\ DiskAtStart
  /\ LocksAtStart
  /\ ReindexAtStart
  /\ utxos = PoolUtxos
  /\ chain = with_genesis
  /\ no_pow_check = FALSE
  /\ replica = with_genesis
  /\ pending = [a |-> {}, b |-> {}]
  /\ blocks = EmptyMap
  /\ applied = AppliedState(GenesisHash)
  /\ seen = NoSeen
  /\ last = NoPoolOp
  /\ steps = 0

PoolNext == PoolAddTx \/ PoolRemoveTx \/ PoolRemoveTxV1 \/ PoolTemplate

SpecPool == PoolInit /\ [][PoolNext]_vars

(***************************************************************************)
(* Properties of the mempool.                                              *)
(***************************************************************************)
PoolEntries(mp) == {mp.map_v2[id] : id \in DOMAIN mp.map_v2}

\* The entries of mp that spend a prevout of tx.
Claimants(tx, mp) == {e \in PoolEntries(mp) : PrevoutsOf(e.tx) \cap PrevoutsOf(tx) # {}}

\* The txids of tx can be computed and neither index of mp holds them.
HasNewTxid(tx, mp) ==
  /\ validate(tx) = "Ok"
  /\ txid_v2(tx) \notin DOMAIN mp.map_v2
  /\ txid_v1(tx) \notin DOMAIN mp.map_v1

\* C11: after any sequence of add_tx, remove_tx and remove_tx_v1 calls no two
\* entries of the mempool spend the same prevout, and an add_tx of a
\* transaction with a new txid that shares a prevout with an entry fails with
\* DoubleSpend, names a prevout of the transaction that an entry spends, and
\* leaves the mempool as it was.
NoSharedPrevout ==
  /\ \A a, b \in PoolEntries(mempool) :
       a # b => PrevoutsOf(a.tx) \cap PrevoutsOf(b.tx) = {}
  /\ (last.op = "add_tx" /\ HasNewTxid(last.tx, last.pre)
        /\ Claimants(last.tx, last.pre) # {})
       => /\ ~last.ok
          /\ last.err = "DoubleSpend"
          /\ last.named \in PrevoutsOf(last.tx)
          /\ \E e \in Claimants(last.tx, last.pre) : last.named \in PrevoutsOf(e.tx)
          /\ mempool = last.pre

\* A two-input transaction was rejected because its second input is spent by
\* an entry of the mempool.
SecondInputDoubleSpent ==
  /\ last.op = "add_tx"
  /\ HasNewTxid(last.tx, last.pre)
  /\ Len(last.tx.vin) = 2
  /\ last.err = "DoubleSpend"
  /\ last.named = last.tx.vin[2].prevout
  /\ Claimants(last.tx, last.pre) # {}

\* The sum of the sizes of a set of entries.
RECURSIVE SumSizes(_)
SumSizes(E) ==
  IF E = {} THEN 0
  ELSE With(CHOOSE e \in E : TRUE, LAMBDA e : e.size_bytes + SumSizes(E \ {e}))

\* add_tx reaches its capacity checks for tx: every earlier check passes.
ReachesLimits(tx, mp) ==
  /\ HasNewTxid(tx, mp)
  /\ PrevoutsOf(tx) \cap mp.spent = {}
  /\ validate_value_conservation(tx, utxos).ok
  /\ ~BigLt(validate_value_conservation(tx, utxos).val,
            BigFromInt(cfg.min_fee_rate * canonical_len_v2(tx)))

\* C12: after any sequence of add_tx, remove_tx and remove_tx_v1 calls the
\* mempool holds at most max_txs entries and total_bytes, the sum of the sizes
\* of its entries, is at most max_total_bytes; an add_tx that passes the
\* earlier checks either inserts the transaction or fails with Full, when
\* even after the eviction the count has no room, or with BytesLimit, when the
\* bytes have no room, and then the transaction is not inserted; one that fits
\* in no mempool at all is among the latter.
PoolWithinLimits ==
  /\ Cardinality(DOMAIN mempool.map_v2) <= cfg.max_txs
  /\ mempool.total_bytes <= cfg.max_total_bytes
  /\ mempool.total_bytes = SumSizes(PoolEntries(mempool))
  /\ (last.op = "add_tx" /\ ReachesLimits(last.tx, last.pre))
       => \/ /\ last.ok
             /\ txid_v2(last.tx) \in DOMAIN mempool.map_v2
          \/ /\ ~last.ok
             /\ last.err = "Full"
             /\ txid_v2(last.tx) \notin DOMAIN mempool.map_v2
             /\ Cardinality(DOMAIN mempool.map_v2) + 1 > cfg.max_txs
          \/ /\ ~last.ok
             /\ last.err = "BytesLimit"
             /\ txid_v2(last.tx) \notin DOMAIN mempool.map_v2
             /\ mempool.total_bytes + canonical_len_v2(last.tx) > cfg.max_total_bytes
  /\ (last.op = "add_tx" /\ ReachesLimits(last.tx, last.pre)
        /\ (cfg.max_txs < 1 \/ canonical_len_v2(last.tx) > cfg.max_total_bytes))
       => ~last.ok /\ last.err \in {"Full", "BytesLimit"}

\* An add_tx evicted an entry and still failed with BytesLimit.
BytesLimitAfterEviction ==
  /\ last.op = "add_tx"
  /\ last.err = "BytesLimit"
  /\ Cardinality(DOMAIN mempool.map_v2) < Cardinality(DOMAIN last.pre.map_v2)
  /\ mempool.map_v2 # EmptyMap

\* C13: with max_txs = 2, after offering transactions with the fee rates 10,
\* 20 and 5 on distinct outputs in that order, the mempool holds the entries
\* with the rates 20 and 10.
EvictionKeepsHigherRates ==
  (cfg.max_txs = 2 /\ last.op = "add_tx" /\ last.offered = <<Rate10Tx, Rate20Tx, Rate5Tx>>)
    => DOMAIN mempool.map_v2 = {txid_v2(Rate20Tx), txid_v2(Rate10Tx)}

(***************************************************************************)
(* Properties of build_block_template.                                     *)
(***************************************************************************)
\* Entry a comes before entry b in the order of the template: higher fee rate
\* first, and on equal fee rates the lower txid_v2 first.
RanksBefore(a, b) ==
  \/ fee_rate_lt(b, a)
  \/ /\ ~fee_rate_lt(a, b)
     /\ PositionIn(last.txid_order, a.txid_v2) < PositionIn(last.txid_order, b.txid_v2)

\* The entries of the mempool whose transactions a block carries after its
\* first transaction.
Included(block) ==
  {e \in PoolEntries(last.pre) : \E i \in 2..Len(block.txs) : block.txs[i] = e.tx}

\* C14: a block returned by build_block_template starts with the given
\* coinbase; its other transactions are entries of the mempool, each once, in
\* descending fee rate order with ties in ascending txid_v2; the canonical
\* sizes of its transactions sum to total_size <= max_block_bytes; an entry is
\* left out only if the coinbase, the included entries before it in that
\* order and the entry itself exceed max_block_bytes; its nonce is 0 and its
\* merkle root is merkle_root of the txids; and the result does not depend on
\* the order in which the mempool lists its entries.
TemplateIsGreedyByFeeRate ==
  last.op = "template" =>
    /\ Cardinality(last.out) = 1
    /\ \A r \in last.out : r.ok =>
         /\ r.block.txs[1] = last.tx
         /\ \A i \in 2..Len(r.block.txs) :
              /\ \E e \in PoolEntries(last.pre) : e.tx = r.block.txs[i]
              /\ \A j \in 2..Len(r.block.txs) : i # j => r.block.txs[i] # r.block.txs[j]
         /\ \A i, j \in 2..Len(r.block.txs) :
              i < j => RanksBefore(last.pre.map_v2[txid_v2(r.block.txs[i])],
                                   last.pre.map_v2[txid_v2(r.block.txs[j])])
         /\ r.total_size = SumSeq([i \in 1..Len(r.block.txs) |->
                                    canonical_len_v2(r.block.txs[i])], 1)
         /\ r.total_size <= last.max_block_bytes
         /\ \A e \in PoolEntries(last.pre) \ Included(r.block) :
              canonical_len_v2(last.tx)
                + SumSizes({d \in Included(r.block) : RanksBefore(d, e)})
                + e.size_bytes > last.max_block_bytes
         /\ r.block.header.nonce = 0
         /\ r.block.header.merkle_root = merkle_root(txids_v2(r.block.txs))

\* A template left out an entry and took one that comes later in the order.
TemplateSkippedAndWentOn ==
  /\ last.op = "template"
  /\ \E r \in last.out :
       /\ r.ok
       /\ \E e \in PoolEntries(last.pre) \ Included(r.block) :
            \E d \in Included(r.block) : RanksBefore(e, d)

(***************************************************************************)
(* A connection whose peer sends Ping messages.                            *)
(***************************************************************************)
\* The instants at which the peer sends: before the read timeout, twice, and
\* at the end of the first window of the limiter.
SendInstants == {READ_TIMEOUT_SECS - 1, 2 * (READ_TIMEOUT_SECS - 1), MSG_WINDOW_SECS}

\* handle_connection, one turn of the loop.
ConnReceive ==
  /\ conn.open
  /\ clock \in SendInstants
  /\ conn' = handle_ping(conn, clock)
  /\ UNCHANGED <<utxos, chainVars, permVars, nodeVars, diskVars, lockVars, reindexVars, cfg, clock, peerVars, last, steps>>

\* Time passes up to the next instant at which the peer sends.
ConnTick ==
  /\ conn.open
  /\ \E t \in SendInstants :
       /\ t > clock
       /\ t - conn.last_read < READ_TIMEOUT_SECS
       /\ clock' = t
  /\ UNCHANGED <<utxos, chainVars, permVars, nodeVars, diskVars, lockVars, reindexVars, cfg, conn, peerVars, last, steps>>

\* Time passes without a message until read_message times out.
ConnTimeout ==
  /\ conn.open
  /\ clock' = conn.last_read + READ_TIMEOUT_SECS
  /\ conn' = read_timeout(conn)
  /\ UNCHANGED <<utxos, chainVars, permVars, nodeVars, diskVars, lockVars, reindexVars, cfg, peerVars, last, steps>>

ConnInit ==
  /\ clock = 0
  /\ conn = Connection(0)
  /\ PeersAtStart
  /\ DiskAtStart
  /\ LocksAtStart
  /\ ReindexAtStart
  /\ cfg = MempoolConfigDefault
  /\ utxos = EmptyMap
  /\ chain = with_genesis
  /\ no_pow_check = FALSE
  /\ replica = with_genesis
  /\ pending = [a |-> {}, b |-> {}]
  /\ blocks = EmptyMap
  /\ applied = AppliedState(GenesisHash)
  /\ mempool = EmptyMempool
  /\ seen = NoSeen
  /\ last = NoLast
  /\ steps = 0

ConnNext == ConnReceive \/ ConnTick \/ ConnTimeout

SpecConn == ConnInit /\ [][ConnNext]_vars

\* The number of messages dispatched at the instants after `from` up to `to`.
RECURSIVE DispatchedIn(_, _, _)
DispatchedIn(d, from, to) ==
  IF \A t \in DOMAIN d : t <= from \/ t > to THEN 0
  ELSE With(CHOOSE t \in DOMAIN d : t > from /\ t <= to, LAMBDA t :
         d[t] + DispatchedIn(MapRemove(d, t), from, to))

\* C15: on a connection, at most MAX_MSGS_PER_WINDOW messages are dispatched
\* within any MSG_WINDOW_SECS seconds, and the connection that was ended by the
\* limiter has its peer banned.
SlidingWindowLimit ==
  /\ \A t \in DOMAIN conn.dispatched :
       DispatchedIn(conn.dispatched, t - MSG_WINDOW_SECS, t) <= MAX_MSGS_PER_WINDOW
  /\ (~conn.open /\ conn.err = "InvalidBlock") => conn.banned

(***************************************************************************)
(* The threads of run_p2p around the PeerManager: the accept loop, the     *)
(* Addr handler, the seed dialer, the threads of spawn_connect and the     *)
(* threads that end a connection.  Each action is one critical section of  *)
(* the lock of the PeerManager, or one step outside of it.                 *)
(***************************************************************************)
MaxTicks == 2
MaxConns == 1

PeerAddrs == {"x", "y"}

\* The ban of addr is unexpired.
Banned(addr) == addr \in DOMAIN peers.banned /\ peers.banned[addr] > clock

OpenTo(addr) == IF addr \in DOMAIN open THEN open[addr] ELSE 0
Opened(addr) == MapInsert(open, addr, OpenTo(addr) + 1)
Closed(addr) == MapInsert(open, addr, OpenTo(addr) - 1)

NoPeerOp == [op |-> "none", addr |-> "", ok |-> TRUE, was_banned |-> FALSE]

\* run_p2p, the accept loop for an incoming connection from addr.
PeersAccept(addr) ==
  /\ OpenTo(addr) < MaxConns
  /\ With(allow_incoming(peers, addr, clock), LAMBDA r :
       /\ peers' = r.pm
       /\ open' = IF r.res THEN Opened(addr) ELSE open
       /\ last' = [op |-> "allow_incoming", addr |-> addr, ok |-> r.res,
                   was_banned |-> Banned(addr)])
  /\ UNCHANGED <<utxos, chainVars, permVars, nodeVars, diskVars, lockVars, reindexVars, cfg, clock, conn, dial, steps>>

\* handle_connection, an Addr message with the one address addr: add_peer,
\* and spawn_connect when the address is new.
PeersAddr(addr) ==
  /\ \E b \in PeerAddrs : OpenTo(b) > 0
  /\ addr \notin DOMAIN dial
  /\ With(add_peer(peers, addr, clock), LAMBDA r :
       /\ peers' = r.pm
       /\ dial' = IF r.ok /\ r.res THEN MapInsert(dial, addr, [pc |-> "spawned", attempt |-> 0])
                   ELSE dial
       /\ last' = [op |-> "add_peer", addr |-> addr, ok |-> r.ok,
                   was_banned |-> Banned(addr)])
  /\ UNCHANGED <<utxos, chainVars, permVars, nodeVars, diskVars, lockVars, reindexVars, cfg, clock, conn, open, steps>>

\* spawn_seed_dialer, for the listed peer addr: should_dial, then spawn_connect.
PeersSeedDial(addr) ==
  /\ addr \notin DOMAIN dial
  /\ With(peer_list(peers, clock), LAMBDA l :
       /\ addr \in l.res
       /\ With(should_dial(l.pm, addr, clock), LAMBDA r :
            /\ peers' = r.pm
            /\ dial' = IF r.res THEN MapInsert(dial, addr, [pc |-> "spawned", attempt |-> 0])
                        ELSE dial
            /\ last' = [op |-> "should_dial", addr |-> addr, ok |-> r.res,
                        was_banned |-> Banned(addr)]))
  /\ UNCHANGED <<utxos, chainVars, permVars, nodeVars, diskVars, lockVars, reindexVars, cfg, clock, conn, open, steps>>

\* spawn_connect, the thread: mark_dialed.
DialMark(addr) ==
  /\ addr \in DOMAIN dial
  /\ dial[addr].pc = "spawned"
  /\ peers' = mark_dialed(peers, addr, clock)
  /\ dial' = [dial EXCEPT ![addr].pc = "attempt"]
  /\ last' = [op |-> "mark_dialed", addr |-> addr, ok |-> TRUE, was_banned |-> Banned(addr)]
  /\ UNCHANGED <<utxos, chainVars, permVars, nodeVars, diskVars, lockVars, reindexVars, cfg, clock, conn, open, steps>>

\* spawn_connect, the thread at the top of an attempt: is_banned under the
\* lock; the thread returns when the peer is banned or the attempts are used up.
DialCheck(addr) ==
  /\ addr \in DOMAIN dial
  /\ dial[addr].pc = "attempt"
  /\ IF dial[addr].attempt >= SEED_RETRY_ATTEMPTS
     THEN /\ dial' = MapRemove(dial, addr)
          /\ UNCHANGED <<peers, last>>
     ELSE With(is_banned(peers, addr, clock), LAMBDA r :
            /\ peers' = r.pm
            /\ dial' = IF r.res THEN MapRemove(dial, addr)
                        ELSE [dial EXCEPT ![addr].pc = "connect"]
            /\ last' = [op |-> "is_banned", addr |-> addr, ok |-> ~r.res,
                        was_banned |-> Banned(addr)])
  /\ UNCHANGED <<utxos, chainVars, permVars, nodeVars, diskVars, lockVars, reindexVars, cfg, clock, conn, open, steps>>

\* spawn_connect, the thread after the lock was released: TcpStream::connect,
\* which succeeds (handle_connection runs) or fails (the next attempt).
DialConnect(addr) ==
  /\ addr \in DOMAIN dial
  /\ dial[addr].pc = "connect"
  /\ \/ /\ OpenTo(addr) < MaxConns
        /\ open' = Opened(addr)
        /\ dial' = MapRemove(dial, addr)
        /\ last' = [op |-> "connect", addr |-> addr, ok |-> TRUE, was_banned |-> Banned(addr)]
     \/ /\ dial' = [dial EXCEPT ![addr] = [pc |-> "attempt", attempt |-> @.attempt + 1]]
        /\ last' = [op |-> "connect", addr |-> addr, ok |-> FALSE,
                    was_banned |-> Banned(addr)]
        /\ UNCHANGED open
  /\ UNCHANGED <<utxos, chainVars, permVars, nodeVars, diskVars, lockVars, reindexVars, cfg, clock, conn, peers, steps>>

\* The thread of a connection with addr: handle_connection returned an error
\* for which should_ban holds; ban.
ConnBan(addr) ==
  /\ OpenTo(addr) > 0
  /\ peers' = ban(peers, addr, clock)
  /\ open' = Closed(addr)
  /\ last' = [op |-> "ban", addr |-> addr, ok |-> TRUE, was_banned |-> Banned(addr)]
  /\ UNCHANGED <<utxos, chainVars, permVars, nodeVars, diskVars, lockVars, reindexVars, cfg, clock, conn, dial, steps>>

\* The thread of a connection with addr: handle_connection returned Ok or an
\* error that does not ban.
ConnEnd(addr) ==
  /\ OpenTo(addr) > 0
  /\ open' = Closed(addr)
  /\ last' = [op |-> "end", addr |-> addr, ok |-> TRUE, was_banned |-> Banned(addr)]
  /\ UNCHANGED <<utxos, chainVars, permVars, nodeVars, diskVars, lockVars, reindexVars, cfg, clock, conn, peers, dial, steps>>

\* Time passes: the duration of a ban, which is also past the interval of the
\* seed dialer.
PeersTick ==
  /\ steps < MaxTicks
  /\ steps' = steps + 1
  /\ clock' = clock + BAN_DURATION_SECS
  /\ last' = [op |-> "tick", addr |-> "", ok |-> TRUE, was_banned |-> FALSE]
  /\ UNCHANGED <<utxos, chainVars, permVars, nodeVars, diskVars, lockVars, reindexVars, cfg, conn, peerVars>>

PeersInit ==
  /\ clock = 0
  /\ conn = NoConnection
  /\ \E initial \in SUBSET PeerAddrs : peers = PeerManager(initial)
  /\ dial = EmptyMap
  /\ open = EmptyMap
  /\ DiskAtStart
  /\ LocksAtStart
  /\ ReindexAtStart
  /\ cfg = MempoolConfigDefault
  /\ utxos = EmptyMap
  /\ chain = with_genesis
  /\ no_pow_check = FALSE
  /\ replica = with_genesis
  /\ pending = [a |-> {}, b |-> {}]
  /\ blocks = EmptyMap
  /\ applied = AppliedState(GenesisHash)
  /\ mempool = EmptyMempool
  /\ seen = NoSeen
  /\ last = NoPeerOp
  /\ steps = 0

PeersNext ==
  \E addr \in PeerAddrs :
    \/ PeersAccept(addr)
    \/ PeersAddr(addr)
    \/ PeersSeedDial(addr)
    \/ DialMark(addr)
    \/ DialCheck(addr)
    \/ DialConnect(addr)
    \/ ConnBan(addr)
    \/ ConnEnd(addr)
    \/ PeersTick

SpecPeers == PeersInit /\ [][PeersNext]_vars

\* The methods of PeerManager that call purge_bans.
PurgingOps == {"allow_incoming", "add_peer", "should_dial", "is_banned"}

\* C16: while the ban of an address is unexpired, the address is not in the
\* peer set, add_peer and allow_incoming reject it and no outbound connect to
\* it is made; an expired ban is gone after the next access that consults the
\* ban list, and the address is accepted by add_peer again.
BannedIsShutOut ==
  /\ \A addr \in PeerAddrs : Banned(addr) => addr \notin peers.peers
  /\ (last.op \in {"add_peer", "allow_incoming"} /\ last.was_banned) => ~last.ok
  /\ (last.op = "connect" /\ last.ok) => ~last.was_banned
  /\ last.op \in PurgingOps => \A addr \in DOMAIN peers.banned : peers.banned[addr] > clock
  /\ (last.op = "add_peer" /\ ~last.was_banned) => (last.ok /\ last.addr \in peers.peers)

(***************************************************************************)
(* A node that runs with a data directory: the Block handler persists the  *)
(* UTXO set after every call of reorg_to_tip that returned Ok.             *)
(***************************************************************************)
\* handle_connection, P2pMessage::Block, with data_dir and db present.
StoreBlock ==
  /\ steps < MaxMsgs
  /\ \E block \in BlockInputs(NodeOf), now \in NodeClock :
       \E start \in StartChoices(chain, block.header.prev_block_hash) :
         \E r \in handle_block(NodeOf, no_pow_check, block, now, start) :
           /\ NodeIs(r.node)
           /\ last' = NodeLast(r.op, r.ok, r.err, NoTx, r.calls)
           /\ IF r.op = "block" /\ r.ok
              THEN With(persist_utxos(data_dir, r.node.utxos, db), LAMBDA p :
                     data_dir' = p.dir /\ db' = p.db)
              ELSE UNCHANGED diskVars
  /\ steps' = steps + 1
  /\ UNCHANGED <<no_pow_check, permVars, cfg, netVars, reindexVars, lockVars>>

StoreInit ==
  /\ utxos = FreshNode.utxos
  /\ chain = FreshNode.chain
  /\ blocks = FreshNode.blocks
  /\ applied = FreshNode.applied
  /\ mempool = FreshNode.mempool
  /\ seen = FreshNode.seen
  /\ AuxAtStart
  /\ no_pow_check = FALSE
  /\ replica = with_genesis
  /\ pending = [a |-> {}, b |-> {}]
  /\ last = NodeLast("none", TRUE, "Ok", NoTx, <<>>)
  /\ steps = 0

\* The Tx and Headers handlers write nothing to the data directory.
StoreNext == StoreBlock \/ NodeTx \/ NodeHeaders

SpecStore == StoreInit /\ [][StoreNext]_vars

\* C17: after every persist_utxos the tree "utxo" holds exactly the entries of
\* the UTXO set in memory, meta.utxo_count is the number of entries of the tree,
\* and load_utxos from the database succeeds and returns the same set.
PersistedIsLoaded ==
  (last.op = "block" /\ last.ok) =>
    /\ DOMAIN db.utxo = {encode_outpoint(o) : o \in DOMAIN utxos}
    /\ \A o \in DOMAIN utxos : db.utxo[encode_outpoint(o)] = encode_txout(utxos[o])
    /\ load_utxo_count(db) = <<Cardinality(DOMAIN db.utxo)>>
    /\ load_utxos(data_dir, db) = [ok |-> TRUE, err |-> "Ok", set |-> utxos]

(***************************************************************************)
(* utxo-reindex with a checkpoint path: a run, which may be killed at the  *)
(* top of its loop, and runs with --resume after it.                       *)
(***************************************************************************)
MaxReindexTxs == 3
MaxResumes == 2

\* The transactions of the input: one and two outputs, none, and one that
\* validate rejects.
ReindexTxs == {Rate10Tx, TwoOutputTx, NoTx, OversizeScriptTx}

\* utxo_reindex, one turn of the loop.
ReindexStep ==
  /\ reindex.pc = "loop"
  /\ reindex.idx < Len(reindex.txs)
  /\ With(reindex_tx(reindex, checkpoint), LAMBDA r :
       reindex' = r.run /\ checkpoint' = r.file)
  /\ UNCHANGED <<utxos, chainVars, permVars, nodeVars, cfg, netVars, diskVars, lockVars, sync, last, steps>>

\* utxo_reindex, from the end of the loop to its return.
ReindexFinish ==
  /\ reindex.pc = "loop"
  /\ reindex.idx = Len(reindex.txs)
  /\ With(reindex_finish(reindex), LAMBDA r :
       reindex' = r.run /\ checkpoint' = r.file)
  /\ UNCHANGED <<utxos, chainVars, permVars, nodeVars, cfg, netVars, diskVars, lockVars, sync, last, steps>>

\* The run has ended or is killed, and utxo_reindex is started with --resume
\* on the same input: load_checkpoint.
ReindexResume ==
  /\ steps < MaxResumes
  /\ checkpoint # None
  /\ reindex' = ReindexRun(reindex.txs, checkpoint[1].next_tx_index, checkpoint[1].mappings,
                           checkpoint[1].report)
  /\ steps' = steps + 1
  /\ UNCHANGED <<utxos, chainVars, permVars, nodeVars, cfg, netVars, diskVars, lockVars, checkpoint,
                 sync, last>>

ReindexInit ==
  /\ \E txs \in SeqsUpTo(ReindexTxs, MaxReindexTxs) :
       reindex = ReindexRun(txs, 0, <<>>, NewReport)
  /\ checkpoint = None
  /\ sync = NoSync
  /\ cfg = MempoolConfigDefault
  /\ NetAtStart
  /\ DiskAtStart
  /\ LocksAtStart
  /\ utxos = EmptyMap
  /\ chain = with_genesis
  /\ no_pow_check = FALSE
  /\ replica = with_genesis
  /\ pending = [a |-> {}, b |-> {}]
  /\ blocks = EmptyMap
  /\ applied = AppliedState(GenesisHash)
  /\ mempool = EmptyMempool
  /\ seen = NoSeen
  /\ last = NoLast
  /\ steps = 0

ReindexNext == ReindexStep \/ ReindexFinish \/ ReindexResume

SpecReindex == ReindexInit /\ [][ReindexNext]_vars

\* The mappings of the valid transactions among the first n of txs.
RECURSIVE MappingsOfFirst(_, _)
MappingsOfFirst(txs, n) ==
  IF n = 0 THEN <<>>
  ELSE MappingsOfFirst(txs, n - 1)
       \o (IF validate(txs[n]) = "Ok" THEN map_outpoints_v1_to_v2(txs[n]) ELSE <<>>)

\* C18: every checkpoint holds as next_tx_index the number of transactions
\* consumed when it was saved and as mappings those of the valid transactions
\* before that index, and a run that has ended, resumed or not, has written
\* the mappings that the run without interruption writes.
ResumeIsTransparent ==
  /\ checkpoint # None =>
       /\ checkpoint[1].next_tx_index = reindex.consumed
       /\ checkpoint[1].next_tx_index <= Len(reindex.txs)
       /\ checkpoint[1].mappings = MappingsOfFirst(reindex.txs, checkpoint[1].next_tx_index)
  /\ reindex.pc = "done" =>
       reindex.out[1] = reindex_all(ReindexRun(reindex.txs, 0, <<>>, NewReport))

(***************************************************************************)
(* A block of the new path that fails in reorg_to_tip.                     *)
(***************************************************************************)
\* The last call of apply_block_with_undo that the last message made.
LastCall == last.calls[Len(last.calls)]

\* C19: when apply_block_with_undo fails for a block of the new path, the UTXO
\* set is the one the call started from: the set after the blocks of the new
\* path applied before it, without any mutation of the failing block.
FailedBlockLeavesNothing ==
  (last.op = "block" /\ ~last.ok /\ last.calls # <<>> /\ ~LastCall.ok) => utxos = LastCall.pre

(***************************************************************************)
(* Headers-first sync: a peer sends the headers of its chain in one        *)
(* Headers message and then the blocks in chain order, one Block message   *)
(* each, to a node at start.                                               *)
(***************************************************************************)
MaxSyncLen == 3

\* The transaction lists of the block at `height` of the peer's chain: a
\* coinbase that claims the subsidy, or up to two units less; at height 1 also
\* a coinbase that claims the fee of a transaction spending the loaded output.
SyncTxsAt(height) ==
  {<<Coinbase(BigSub(block_subsidy(height), BigFromInt(less)), height)>> : less \in 0..2}
  \cup (IF height = 1
        THEN {<<Coinbase(BigAdd(block_subsidy(height), <<1>>), height), tx>> :
                tx \in FeeTxs(NodeUtxos)}
        ELSE {})

\* The chains of n blocks on the genesis, one block interval apart.
RECURSIVE SyncChains(_)
SyncChains(n) ==
  IF n = 0 THEN {<<>>}
  ELSE {Append(list,
               BlockOf(IF n = 1 THEN GenesisHash ELSE header_hash(list[n - 1].header),
                       GENESIS_TIME + n * TARGET_BLOCK_TIME_SECS, INITIAL_BITS, 0, txs)) :
          list \in SyncChains(n - 1), txs \in SyncTxsAt(n)}

SyncTarget == header_hash(sync.blocks[Len(sync.blocks)].header)

\* handle_connection, P2pMessage::Headers with the headers of the chain.
SyncHeaders ==
  /\ ~sync.headers_sent
  /\ \E now \in NodeClock :
       \E c \in add_headers(chain, no_pow_check,
                            [i \in 1..Len(sync.blocks) |-> sync.blocks[i].header], 1, now) :
         chain' = c
  /\ sync' = [sync EXCEPT !.headers_sent = TRUE]
  /\ last' = NodeLast("headers", TRUE, "Ok", NoTx, <<>>)
  /\ UNCHANGED <<utxos, no_pow_check, permVars, nodeVars, cfg, netVars, diskVars, lockVars, reindex,
                 checkpoint, steps>>

\* handle_connection, P2pMessage::Block with the next block of the chain.
SyncBlock ==
  /\ sync.headers_sent
  /\ sync.sent < Len(sync.blocks)
  /\ \E now \in NodeClock :
       \E start \in StartChoices(chain, sync.blocks[sync.sent + 1].header.prev_block_hash) :
         \E r \in handle_block(NodeOf, no_pow_check, sync.blocks[sync.sent + 1], now, start) :
           /\ NodeIs(r.node)
           /\ last' = NodeLast(r.op, r.ok, r.err, NoTx, r.calls)
  /\ sync' = [sync EXCEPT !.sent = @ + 1]
  /\ UNCHANGED <<no_pow_check, permVars, cfg, netVars, diskVars, lockVars, reindex, checkpoint, steps>>

SyncInit ==
  /\ \E n \in 1..MaxSyncLen : \E list \in SyncChains(n) :
       sync = [blocks |-> list, headers_sent |-> FALSE, sent |-> 0]
  /\ utxos = FreshNode.utxos
  /\ chain = FreshNode.chain
  /\ blocks = FreshNode.blocks
  /\ applied = FreshNode.applied
  /\ mempool = FreshNode.mempool
  /\ seen = FreshNode.seen
  /\ cfg = MempoolConfigDefault
  /\ NetAtStart
  /\ DiskAtStart
  /\ LocksAtStart
  /\ reindex = ReindexRun(<<>>, 0, <<>>, NewReport)
  /\ checkpoint = None
  /\ no_pow_check = FALSE
  /\ replica = with_genesis
  /\ pending = [a |-> {}, b |-> {}]
  /\ last = NodeLast("none", TRUE, "Ok", NoTx, <<>>)
  /\ steps = 0

SyncNext == SyncHeaders \/ SyncBlock

\* Every message that the peer has to send is delivered and handled.
SpecSync == SyncInit /\ [][SyncNext]_vars /\ WF_vars(SyncNext)

\* The node is at the tip of the peer's chain, with the UTXO set of its blocks.
Synced ==
  /\ chain.tip = SyncTarget
  /\ applied.tip = SyncTarget
  /\ ReplayTo(SyncTarget).ok
  /\ utxos = ReplayTo(SyncTarget).map

\* Every message of the peer has been handled.
Delivered == sync.headers_sent /\ sync.sent = Len(sync.blocks)

\* C20: after the Headers message and the Block messages in chain order the
\* node has applied the chain: applied.tip is the last header, which is the
\* chain tip, and the UTXO set is the one of the blocks.  Every message is
\* handled once and nothing follows the last one, so the node is eventually
\* synced exactly when it is synced once the last block has been handled.
SyncCompletes == Delivered => Synced

(***************************************************************************)
(* Handler threads that dispatch messages concurrently.                    *)
(***************************************************************************)
LockLast(op, t, m, held) == [op |-> op, thread |-> t, m |-> m, held |-> held]

\* handle_connection: a message was read and its dispatch begins.
ThreadDispatch(t) ==
  /\ thread[t].pc = Len(thread[t].path)
  /\ \E msg \in DOMAIN DispatchPaths :
       thread' = [thread EXCEPT ![t] = [path |-> DispatchPaths[msg], pc |-> 0, held |-> <<>>]]
  /\ last' = LockLast("dispatch", t, "", <<>>)
  /\ UNCHANGED <<utxos, chainVars, permVars, nodeVars, cfg, netVars, diskVars, reindexVars,
                 mutex, steps>>

\* handle_connection: the next step of the dispatch.
ThreadStep(t) ==
  /\ CanStep(thread[t], mutex)
  /\ With(NextStep(thread[t]), LAMBDA st :
       /\ mutex' = IF st.op = "lock" THEN MapInsert(mutex, st.m, t)
                    ELSE IF st.op = "unlock" THEN MapRemove(mutex, st.m)
                    ELSE mutex
       /\ last' = LockLast(st.op, t, st.m, thread[t].held))
  /\ thread' = [thread EXCEPT ![t] = step_thread(@)]
  /\ UNCHANGED <<utxos, chainVars, permVars, nodeVars, cfg, netVars, diskVars, reindexVars,
                 steps>>

LocksInit ==
  /\ LocksAtStart
  /\ cfg = MempoolConfigDefault
  /\ NetAtStart
  /\ DiskAtStart
  /\ ReindexAtStart
  /\ utxos = EmptyMap
  /\ chain = with_genesis
  /\ no_pow_check = FALSE
  /\ replica = with_genesis
  /\ pending = [a |-> {}, b |-> {}]
  /\ blocks = EmptyMap
  /\ applied = AppliedState(GenesisHash)
  /\ mempool = EmptyMempool
  /\ seen = NoSeen
  /\ last = LockLast("none", "", "", <<>>)
  /\ steps = 0

LocksNext == \E t \in Threads : ThreadDispatch(t) \/ ThreadStep(t)

SpecLocks == LocksInit /\ [][LocksNext]_vars

\* The thread waits for a mutex.
Waiting(t) ==
  /\ thread[t].pc < Len(thread[t].path)
  /\ NextStep(thread[t]).op = "lock"
  /\ NextStep(thread[t]).m \in DOMAIN mutex

\* C21: no handler threads wait forever for state mutexes held by each other:
\* there is no set of threads of which each waits for a mutex that a thread
\* of the set holds, so every dispatch that began can finish.
NoDeadlock ==
  \A S \in SUBSET Threads \ {{}} :
    \E t \in S : ~(Waiting(t) /\ mutex[NextStep(thread[t]).m] \in S)

\* The order of the lock-ordering rule.
LockOrder == <<"chain", "blocks", "utxos", "mempool", "applied", "peers", "seen">>
LockRank(m) == PositionIn(LockOrder, m)

\* C22: the mutexes that a handler holds together were locked in the order
\* chain, blocks, utxos, mempool, applied, peers, seen, and a handler that
\* drops a guard drops the one it locked last.
LockOrderKept ==
  /\ \A t \in Threads :
       \A i, j \in 1..Len(thread[t].held) :
         i < j => LockRank(thread[t].held[i]) < LockRank(thread[t].held[j])
  /\ last.op = "unlock" => last.m = last.held[Len(last.held)]

\* C23: a handler that sends on its socket or connects to a peer holds at
\* most one state mutex, and a handler that enters broadcast_inv does not hold
\* the lock of the peer manager.
NetworkWithOneLock ==
  /\ last.op \in {"send", "connect"} => Len(last.held) <= 1
  /\ (last.op = "enter" /\ last.m = "broadcast_inv") =>
       \A i \in 1..Len(last.held) : last.held[i] # "peers"

(***************************************************************************)
(* apply_coinbase on UTXO sets that block applies leave: coinbases are     *)
(* applied and single outputs are spent by later transactions.             *)
(***************************************************************************)
MaxCoinbaseSteps == 3

\* Coinbases of one to three outputs, and one that validate rejects.
CoinbaseChoices ==
  {[TxOf(<<>>, [i \in 1..n |-> PayTo(BigFromInt(i))]) EXCEPT !.lock_time = tag] :
     n \in 1..3, tag \in 1..2}
  \cup {TxOf(<<>>, <<[value |-> <<1>>, script_pubkey |-> OversizeScript]>>)}

\* apply_block_with_undo, the first transaction of a block: apply_coinbase.
CoinbaseApply ==
  /\ steps < MaxCoinbaseSteps
  /\ \E tx \in CoinbaseChoices :
       With(apply_coinbase(utxos, tx), LAMBDA r :
         /\ utxos' = r.map
         /\ last' = [NoLast EXCEPT !.op = "apply_coinbase", !.ok = r.ok, !.err = r.err,
                                   !.tx = tx, !.pre = utxos, !.receipt = r.receipt])
  /\ steps' = steps + 1
  /\ UNCHANGED <<chainVars, permVars, nodeVars, auxVars>>

\* apply_block_with_undo, a later transaction that spends one entry.
CoinbaseSpend ==
  /\ steps < MaxCoinbaseSteps
  /\ \E op \in DOMAIN utxos :
       With(apply_tx(utxos, TxOf(<<TxInOf(op)>>, <<>>)), LAMBDA r :
         /\ utxos' = r.map
         /\ last' = [NoLast EXCEPT !.op = "apply_tx", !.ok = r.ok, !.err = r.err,
                                   !.pre = utxos])
  /\ steps' = steps + 1
  /\ UNCHANGED <<chainVars, permVars, nodeVars, auxVars>>

CoinbaseInit ==
  /\ utxos = EmptyMap
  /\ chain = with_genesis
  /\ no_pow_check = FALSE
  /\ replica = with_genesis
  /\ pending = [a |-> {}, b |-> {}]
  /\ NodeAtStart
  /\ last = NoLast
  /\ steps = 0

CoinbaseNext == CoinbaseApply \/ CoinbaseSpend

SpecCoinbase == CoinbaseInit /\ [][CoinbaseNext]_vars

\* C26: when apply_coinbase fails, on an output that exists or in validate,
\* the UTXO set is the one before the call.
CoinbaseAtomicOnError ==
  (last.op = "apply_coinbase" /\ ~last.ok) => utxos = last.pre

(***************************************************************************)
(* Supply of the node.                                                     *)
(***************************************************************************)
\* The exact sum of the values of the entries of a UTXO set.
RECURSIVE UtxoTotal(_, _)
UtxoTotal(map, keys) ==
  IF keys = {} THEN <<>>
  ELSE With(CHOOSE o \in keys : TRUE, LAMBDA o :
         BigAdd(map[o].value, UtxoTotal(map, keys \ {o})))

\* The sum of block_subsidy over the heights of the blocks of a path.
RECURSIVE SubsidiesOf(_, _)
SubsidiesOf(path, i) ==
  IF i > Len(path) THEN <<>>
  ELSE BigAdd(block_subsidy(chain.heights[path[i]]), SubsidiesOf(path, i + 1))

\* The outpoints of the transactions of a block.
BlockOutPoints(block) ==
  {OutPointOf(txid_v2(block.txs[i]), v) :
     i \in 1..Len(block.txs), v \in 0..MaxTxLen}

SupplyWithinSubsidies ==
  /\ PathFromGenesis(applied.tip).ok
  /\ BigLe(UtxoTotal(utxos, DOMAIN utxos),
           BigAdd(UtxoTotal(NodeUtxos, DOMAIN NodeUtxos),
                  SubsidiesOf(PathFromGenesis(applied.tip).val, 1)))

RejectedBlockLeavesNoOutputs ==
  (last.op = "block" /\ last.calls # <<>> /\ ~LastCall.ok)
    => (DOMAIN utxos \ DOMAIN LastCall.pre) \cap BlockOutPoints(LastCall.block) = {}

\* C24: in every reachable state of a node that handles Block messages, the
\* total value of the UTXO set is at most the initial total plus the subsidies
\* of the blocks on the path genesis -> applied.tip, and a rejected block
\* leaves none of its outputs in the UTXO set.
SupplyBound == SupplyWithinSubsidies /\ RejectedBlockLeavesNoOutputs

\* C25: in every reachable state, after reorg_to_tip calls that succeeded or
\* failed, the keys of applied.undo are exactly the hashes of the blocks on
\* the path genesis -> applied.tip, the genesis excluded.
UndoIsAppliedPath ==
  /\ PathFromGenesis(applied.tip).ok
  /\ DOMAIN applied.undo =
       {PathFromGenesis(applied.tip).val[i] :
          i \in 1..Len(PathFromGenesis(applied.tip).val)}

\* C27: after a Block message whose reorg succeeded, every entry of the
\* mempool has all its inputs in the UTXO set.
MempoolValidAfterBlock ==
  (last.op = "block" /\ last.ok)
    => \A id \in DOMAIN mempool.map_v2 :
         PrevoutsOf(mempool.map_v2[id].tx) \subseteq DOMAIN utxos

(***************************************************************************)
(* Properties of the eviction and of the errors of add_tx.                 *)
(***************************************************************************)
\* tx fits in a mempool of the given entries under cfg.
Fits(tx, E) ==
  /\ Cardinality(E) + 1 <= cfg.max_txs
  /\ SumSizes(E) + canonical_len_v2(tx) <= cfg.max_total_bytes

\* The last call was an add_tx that reached the capacity checks and found no
\* room for its transaction.
AddTxOverflowed ==
  /\ last.op = "add_tx"
  /\ ReachesLimits(last.tx, last.pre)
  /\ ~Fits(last.tx, PoolEntries(last.pre))

\* The entries the last call removed, and those of before the call it kept.
Evicted == PoolEntries(last.pre) \ PoolEntries(mempool)
Kept == PoolEntries(last.pre) \cap PoolEntries(mempool)

\* The evicted entries are the lowest by fee rate, and no more were evicted
\* than the transaction needed.
EvictedAscending ==
  AddTxOverflowed
    => /\ \A e \in Evicted, k \in Kept : ~fee_rate_lt(k, e)
       /\ Evicted # {} => \E e \in Evicted : ~Fits(last.tx, Kept \cup {e})

\* The eviction went on until the transaction fitted or nothing was left.
EvictedUntilRoom ==
  AddTxOverflowed
    => \/ last.ok /\ txid_v2(last.tx) \in DOMAIN mempool.map_v2
       \/ ~last.ok /\ last.err \in {"Full", "BytesLimit"} /\ mempool.map_v2 = EmptyMap

\* C28: when add_tx would overflow max_txs or max_total_bytes, entries are
\* evicted in ascending fee rate order until the transaction fits or the
\* mempool is empty, and add_tx fails with Full or BytesLimit only with an
\* empty mempool.
EvictsUntilFits == EvictedAscending /\ EvictedUntilRoom

\* C29: an add_tx that returns an error leaves the mempool as it was: the
\* entries, the spent set, the v1 index and total_bytes.
AddTxErrorKeepsMempool ==
  (last.op = "add_tx" /\ ~last.ok) => mempool = last.pre

\* The entries agree with the three other fields of the mempool.
IndexesMatchEntries ==
  /\ \A id \in DOMAIN mempool.map_v2 :
       /\ mempool.map_v2[id].txid_v2 = id
       /\ id = txid_v2(mempool.map_v2[id].tx)
       /\ mempool.map_v2[id].txid_v1 = txid_v1(mempool.map_v2[id].tx)
       /\ mempool.map_v2[id].size_bytes = canonical_len_v2(mempool.map_v2[id].tx)
  /\ mempool.spent = UNION {PrevoutsOf(e.tx) : e \in PoolEntries(mempool)}
  /\ mempool.total_bytes = SumSizes(PoolEntries(mempool))
  /\ DOMAIN mempool.map_v1 = {e.txid_v1 : e \in PoolEntries(mempool)}
  /\ \A e \in PoolEntries(mempool) : mempool.map_v1[e.txid_v1] = e.txid_v2

\* A step that removes, by remove_tx, the transaction that the call before
\* it added without an eviction, ends in the mempool of before the add_tx.
AddThenRemoveRestores ==
  (/\ last.op = "add_tx" /\ last.ok
   /\ PoolEntries(last.pre) \subseteq PoolEntries(mempool)
   /\ last'.op = "remove_tx" /\ last'.tx = last.tx)
    => mempool' = last.pre

\* C30: after any sequence of add_tx, remove_tx, remove_tx_v1 and evictions
\* spent is the union of the prevouts of the entries, total_bytes is the sum
\* of their sizes and the v1 index maps txid_v1 to txid_v2 for exactly the
\* entries; and an add_tx followed by remove_tx of the same txid, with no
\* eviction, restores the mempool of before.
IndexesAgree == []IndexesMatchEntries /\ [][AddThenRemoveRestores]_vars

\* A transaction was added next to an entry and removed again by remove_tx.
AddedThenRemoved ==
  /\ last.op = "remove_tx"
  /\ last.ok
  /\ last.offered # <<>>
  /\ last.tx = last.offered[Len(last.offered)]
  /\ mempool = remove_tx(last.pre, txid_v2(last.tx))
  /\ mempool.map_v2 # EmptyMap

(***************************************************************************)
(* Retargeting: chains that stand one header before a retarget boundary,   *)
(* and the headers a peer sends on top of them.                            *)
(***************************************************************************)
MaxRetargetAdds == 3

\* The chain c after the header that extends its tip by dt seconds over a
\* retarget boundary was added (one header is stored at the window start
\* height).
OverBoundary(c, dt) ==
  add_header(c, NextHeader(c, dt), FALSE, GENESIS_TIME + MAX_FUTURE_DRIFT_SECS,
             Some(CHOOSE ha \in WindowStarts(c, c.heights[c.tip] + 1) : TRUE)).chain

\* The chains to start from: nine headers on the genesis mined in the same
\* second; eight in the second of the genesis and the ninth a whole expected
\* timespan later (the chain of the test
\* expected_bits_window_boundary_keeps_bits_when_on_target); nine on schedule;
\* and nineteen on schedule, which passes the first boundary.
RetargetChains ==
  {BaseChain(0, DIFFICULTY_WINDOW - 1),
   Extended(BaseChain(0, DIFFICULTY_WINDOW - 2), TARGET_BLOCK_TIME_SECS * DIFFICULTY_WINDOW, 1),
   BaseChain(TARGET_BLOCK_TIME_SECS, DIFFICULTY_WINDOW - 1),
   Extended(OverBoundary(BaseChain(TARGET_BLOCK_TIME_SECS, DIFFICULTY_WINDOW - 1),
                         TARGET_BLOCK_TIME_SECS),
            TARGET_BLOCK_TIME_SECS, DIFFICULTY_WINDOW - 1)}

\* The stored headers whose child is at a retarget boundary.
BoundaryParents(c) ==
  {ha \in DOMAIN c.headers : (c.heights[ha] + 1) % DIFFICULTY_WINDOW = 0}

\* A peer's header on a boundary parent reaches ChainState::add_header; last
\* keeps the parent, the entry the window-start lookup returned and the bits
\* that expected_bits computed from it.
RetargetAddHeader ==
  /\ steps < MaxRetargetAdds
  /\ \E prev \in BoundaryParents(chain) :
       \E start \in StartChoices(chain, prev) :
         With(expected_bits(chain, Some(chain.headers[prev]), chain.heights[prev] + 1, start),
              LAMBDA expected :
           \E time \in {chain.headers[prev].time,
                         chain.headers[prev].time + TARGET_BLOCK_TIME_SECS},
              bits \in {expected.val, chain.headers[prev].bits} :
             With(add_header(chain, HeaderOf(prev, GENESIS_MERKLE_ROOT, time, bits, 0),
                             no_pow_check,
                             GENESIS_TIME + MAX_FUTURE_DRIFT_SECS, start), LAMBDA r :
               /\ chain' = r.chain
               /\ last' = [op |-> "add_header", ok |-> r.ok, err |-> r.err, prev |-> prev,
                           start |-> start, expected |-> expected, bits |-> bits]))
  /\ steps' = steps + 1
  /\ UNCHANGED <<utxos, no_pow_check, permVars, nodeVars, auxVars>>

RetargetInit ==
  /\ chain \in RetargetChains
  /\ no_pow_check \in BOOLEAN
  /\ replica = with_genesis
  /\ pending = [a |-> {}, b |-> {}]
  /\ NodeAtStart
  /\ utxos = EmptyMap
  /\ last = [op |-> "none", ok |-> TRUE, err |-> "Ok", prev |-> ZERO_HASH, start |-> None,
             expected |-> [ok |-> TRUE, val |-> INITIAL_BITS], bits |-> INITIAL_BITS]
  /\ steps = 0

RetargetNext == RetargetAddHeader

SpecRetarget == RetargetInit /\ [][RetargetNext]_vars

\* The ancestor of the stored header ha at the start of the window that ends
\* with the child of ha.
WindowStartOf(c, ha) == walk_back(c, ha, DIFFICULTY_WINDOW - 1).val

\* The bits of the child of ha, computed from the window start on the branch
\* of ha.
BranchBits(c, ha) ==
  expected_bits(c, Some(c.headers[ha]), c.heights[ha] + 1, Some(WindowStartOf(c, ha)))

\* C31: at a retarget boundary the bits expected of the child of a stored
\* header are computed from the timestamp of that header's own ancestor at the
\* window start height, whatever other headers are stored at that height.
BitsFromOwnBranch ==
  /\ last.op = "add_header" => last.expected = BranchBits(chain, last.prev)
  /\ \A ha \in BoundaryParents(chain) : \A start \in StartChoices(chain, ha) :
       expected_bits(chain, Some(chain.headers[ha]), chain.heights[ha] + 1, start)
         = BranchBits(chain, ha)

\* The header on the stored header ha that carries `bits`, the time of ha and
\* a digest below every target.
ChildWith(c, ha, bits) == HeaderOf(ha, GENESIS_MERKLE_ROOT, c.headers[ha].time, bits, 0)

\* The bits expected of a child of ha are a compact target that carries work,
\* and add_header accepts the child that has them.
Extendable(c, ha, start) ==
  With(expected_bits(c, Some(c.headers[ha]), c.heights[ha] + 1, start), LAMBDA expected :
    /\ expected.ok
    /\ expected.val # 0
    /\ bits_mantissa(expected.val) # 0
    /\ work_from_bits(expected.val).ok
    /\ add_header(c, ChildWith(c, ha, expected.val), no_pow_check,
                  GENESIS_TIME + MAX_FUTURE_DRIFT_SECS, start).ok)

\* C32: for every reachable ChainState and every stored header, the bits
\* expected of its child are a valid compact target and a header with those
\* bits passes add_header, also at a retarget boundary whose window has the
\* timespan 0.
ChainExtendable ==
  /\ \A ha \in DOMAIN chain.headers : \A start \in StartChoices(chain, ha) :
       Extendable(chain, ha, start)
  /\ (last.op = "add_header" /\ last.bits = last.expected.val) => last.ok

\* The timespan expected_bits measured in the last call: from the entry the
\* window-start lookup returned to the parent.
MeasuredTimespan ==
  IF chain.headers[last.prev].time > chain.headers[last.start[1]].time
  THEN chain.headers[last.prev].time - chain.headers[last.start[1]].time ELSE 0

\* C33: at a retarget boundary whose window has the expected timespan,
\* TARGET_BLOCK_TIME * DIFFICULTY_WINDOW, expected_bits is the bits of the
\* parent, is not zero, and a header that carries it is accepted.
OnTargetKeepsBits ==
  (/\ last.op = "add_header"
   /\ last.start # None
   /\ MeasuredTimespan = TARGET_BLOCK_TIME_SECS * DIFFICULTY_WINDOW)
    => /\ last.expected.ok
       /\ last.expected.val = chain.headers[last.prev].bits
       /\ last.expected.val # 0
       /\ last.bits = last.expected.val => last.ok

(***************************************************************************)
(* Common ancestors of the stored headers.                                 *)
(***************************************************************************)
Elements(seq) == {seq[i] : i \in 1..Len(seq)}

\* common_ancestor of two stored headers returns a stored header, and the two
\* paths that reorg_to_tip builds from it leave the genesis out.
AncestorStored(c, a, b) ==
  With(common_ancestor(c, a, b), LAMBDA ancestor :
    /\ ancestor.ok
    /\ ancestor.val # ZERO_HASH
    /\ ancestor.val \in DOMAIN c.headers
    /\ GenesisHash \notin Elements(path_to_ancestor(c, a, ancestor.val).val)
    /\ GenesisHash \notin Elements(path_from_ancestor(c, ancestor.val, b).val))

\* C34: after any sequence of add_header calls from the built-in genesis,
\* common_ancestor of every two stored headers is a stored header, never the
\* all-zero hash, so that old_path and new_path of reorg_to_tip never hold the
\* genesis.
CommonAncestorIsStored ==
  \A a, b \in DOMAIN chain.headers : AncestorStored(chain, a, b)

(***************************************************************************)
(* A node that stores headers of two branches and answers GetHeaders.      *)
(***************************************************************************)
MaxLocatorSteps == 4
\* The limit the GetHeaders handler passes to headers_after.
GetHeadersLimit == 2000

\* A second header on OfferB1.
OfferB2 == HeaderOf(header_hash(OfferB1), GENESIS_MERKLE_ROOT,
                    GENESIS_TIME + TARGET_BLOCK_TIME_SECS, INITIAL_BITS, 0)
LocatorHeaders == {OfferA1, OfferA2, OfferB1, OfferB2}

\* The locators a peer may send: one or two hashes, stored or not.
LocatorChoices(c) ==
  With(DOMAIN c.headers \cup {UnknownHash}, LAMBDA hashes :
    {<<a>> : a \in hashes} \cup {<<UnknownHash, a>> : a \in hashes})

\* handle_connection, P2pMessage::Headers with one header.
LocatorAddHeader ==
  /\ steps < MaxLocatorSteps
  /\ \E header \in LocatorHeaders :
       With(add_header(chain, header, no_pow_check, GENESIS_TIME, None), LAMBDA r :
         /\ chain' = r.chain
         /\ last' = [op |-> "headers", ok |-> r.ok, locator |-> <<>>, limit |-> 0,
                     out |-> <<>>])
  /\ steps' = steps + 1
  /\ UNCHANGED <<utxos, no_pow_check, permVars, nodeVars, auxVars>>

\* handle_connection, P2pMessage::GetHeaders: last keeps the list that is sent.
LocatorGetHeaders ==
  /\ steps < MaxLocatorSteps
  /\ \E locator \in LocatorChoices(chain), limit \in {1, GetHeadersLimit} :
       \E out \in headers_after(chain, locator, limit) :
         last' = [op |-> "getheaders", ok |-> TRUE, locator |-> locator, limit |-> limit,
                  out |-> out]
  /\ steps' = steps + 1
  /\ UNCHANGED <<utxos, chainVars, permVars, nodeVars, auxVars>>

LocatorInit ==
  /\ chain = with_genesis
  /\ no_pow_check = FALSE
  /\ replica = with_genesis
  /\ pending = [a |-> {}, b |-> {}]
  /\ NodeAtStart
  /\ utxos = EmptyMap
  /\ last = [op |-> "none", ok |-> TRUE, locator |-> <<>>, limit |-> 0, out |-> <<>>]
  /\ steps = 0

LocatorNext == LocatorAddHeader \/ LocatorGetHeaders

SpecLocator == LocatorInit /\ [][LocatorNext]_vars

\* The chain of a peer that has the headers from the genesis up to `tip`.
RECURSIVE AddedInOrder(_, _, _)
AddedInOrder(c, headers, i) ==
  IF i > Len(headers) THEN [ok |-> TRUE, chain |-> c]
  ELSE With(add_header(c, headers[i], FALSE, GENESIS_TIME, None), LAMBDA r :
         IF ~r.ok THEN [ok |-> FALSE, chain |-> c]
         ELSE AddedInOrder(r.chain, headers, i + 1))

PeerChainAt(tip) ==
  With(path_from_ancestor(chain, GenesisHash, tip).val, LAMBDA path :
    AddedInOrder(with_genesis, [i \in 1..Len(path) |-> chain.headers[path[i]]], 1).chain)

\* C35: the list headers_after returns is a connected segment: its first
\* header names the first locator hash the chain knows, each further header
\* names the header before it, and a peer that has the chain up to that
\* locator hash accepts all of them in order.
HeadersAreConnected ==
  (last.op = "getheaders" /\ last.out # <<>>)
    => With(locator_start(chain, last.locator, 1)[1], LAMBDA start :
         /\ last.out[1].prev_block_hash = start
         /\ \A i \in 2..Len(last.out) :
              last.out[i].prev_block_hash = header_hash(last.out[i - 1])
         /\ AddedInOrder(PeerChainAt(start), last.out, 1).ok)

(***************************************************************************)
(* One incoming connection: the accept loop of run_p2p, the message loop   *)
(* of handle_connection, and the thread that bans the peer when            *)
(* handle_connection returned an error that should_ban names.  conn is the *)
(* session [open, hello, err, cause]; hello tells whether the Hello arm    *)
(* ran to its end on this connection.  The rate limiter is left out:       *)
(* a session of MaxSessionMsgs messages stays below MAX_MSGS_PER_WINDOW.   *)
(***************************************************************************)
MaxSessionMsgs == 2

MIN_PROTOCOL_VERSION == 1
MAX_PROTOCOL_VERSION == 1
TXID_VERSION_V1 == 1
TXID_VERSION_V2 == 2

\* The address of the peer, another address it may announce, and the
\* network id of the node.
SessionPeer == "x"
AnnouncedPeer == "y"
NetworkId == "mainnet"

Session == [open |-> TRUE, hello |-> FALSE, err |-> "Ok", cause |-> "none"]
NoSession == [Session EXCEPT !.open = FALSE]

\* The Hello messages a peer may send.
HelloInputs ==
  {[version |-> v, txid_version |-> t, network |-> n] :
     v \in {MIN_PROTOCOL_VERSION, MAX_PROTOCOL_VERSION + 1},
     t \in {None, Some(TXID_VERSION_V1), Some(TXID_VERSION_V2), Some(TXID_VERSION_V2 + 1)},
     n \in {NetworkId, "testnet"}}

\* The Hello arm up to the peers lock, for a node that runs with txid
\* version local_txid_version: the message of the error it returns, or "Ok".
hello_check(msg, local_txid_version) ==
  IF msg.version < MIN_PROTOCOL_VERSION \/ msg.version > MAX_PROTOCOL_VERSION
  THEN "protocol version not supported"
  ELSE IF msg.txid_version = None THEN "missing txid version (must match local)"
  ELSE IF msg.txid_version[1] \notin {TXID_VERSION_V1, TXID_VERSION_V2}
  THEN "unsupported txid version"
  ELSE IF msg.txid_version[1] # local_txid_version THEN "txid version mismatch"
  ELSE IF msg.network # NetworkId THEN "network mismatch"
  ELSE "Ok"

\* What is known of the last turn of the loop: the arm, whether a Hello had
\* been accepted when the arm was dispatched, the stage of the Block arm that
\* failed ("header": add_header, "apply": reorg_to_tip), and the result.
SessionLast(op, stage, ok, err) ==
  [op |-> op, hello |-> conn.hello, stage |-> stage, ok |-> ok, err |-> err]

\* handle_connection returned Err of the kind err: the thread of the
\* connection bans the peer if should_ban and the peers mutex can be locked.
SessionEnds(pm, err, cause, peers_poisoned) ==
  /\ conn' = [conn EXCEPT !.open = FALSE, !.err = err, !.cause = cause]
  /\ peers' = IF should_ban(err) /\ ~peers_poisoned THEN ban(pm, SessionPeer, clock) ELSE pm

\* run_p2p, the accept loop for an incoming connection of the peer.
SessionAccept ==
  /\ ~conn.open
  /\ With(allow_incoming(peers, SessionPeer, clock), LAMBDA r :
       /\ peers' = r.pm
       /\ conn' = IF r.res THEN Session ELSE conn
       /\ last' = SessionLast("accept", "", r.res, "Ok"))
  /\ UNCHANGED <<utxos, chainVars, permVars, nodeVars, cfg, clock, dial, open, diskVars,
                 reindexVars, lockVars, steps>>

\* handle_connection, P2pMessage::Hello
SessionHello ==
  /\ conn.open
  /\ steps < MaxSessionMsgs
  /\ \E msg \in HelloInputs :
       With(hello_check(msg, TXID_VERSION_V2), LAMBDA e :
         With(add_peer(peers, SessionPeer, clock), LAMBDA r :
           /\ IF e # "Ok" THEN SessionEnds(peers, "InvalidBlock", "hello", FALSE)
              ELSE IF ~r.ok THEN SessionEnds(r.pm, "InvalidBlock", "hello", FALSE)
              ELSE conn' = [conn EXCEPT !.hello = TRUE] /\ peers' = peer_list(r.pm, clock).pm
           /\ last' = SessionLast("hello", "", e = "Ok" /\ r.ok, IF e # "Ok" THEN e ELSE r.err)))
  /\ steps' = steps + 1
  /\ UNCHANGED <<utxos, chainVars, permVars, nodeVars, cfg, clock, dial, open, diskVars,
                 reindexVars, lockVars>>

\* handle_connection, P2pMessage::Addr with one address: an address that
\* add_peer refuses is logged, a new address is dialed by a thread of its own.
SessionAddr ==
  /\ conn.open
  /\ steps < MaxSessionMsgs
  /\ \E addr \in {SessionPeer, AnnouncedPeer} :
       With(add_peer(peers, addr, clock), LAMBDA r :
         /\ peers' = r.pm
         /\ dial' = IF r.ok /\ r.res THEN MapInsert(dial, addr, [pc |-> "spawned", attempt |-> 0])
                    ELSE dial
         /\ last' = SessionLast("addr", "", r.ok, r.err))
  /\ steps' = steps + 1
  /\ UNCHANGED <<utxos, chainVars, permVars, nodeVars, cfg, clock, conn, open, diskVars,
                 reindexVars, lockVars>>

\* handle_connection, P2pMessage::Tx: an error of txid_for_version ends the
\* connection, an error of add_tx is logged.
SessionTx ==
  /\ conn.open
  /\ steps < MaxSessionMsgs
  /\ \E tx \in NodeTxInputs(utxos) :
       \E r \in handle_tx(NodeOf, tx) :
         /\ NodeIs(r.node)
         /\ IF r.op = "tx_error" THEN SessionEnds(peers, "Utxo", "tx", FALSE)
            ELSE UNCHANGED <<conn, peers>>
         /\ last' = SessionLast("tx", "", r.ok, r.err)
  /\ steps' = steps + 1
  /\ UNCHANGED <<no_pow_check, permVars, cfg, clock, dial, open, diskVars, reindexVars,
                 lockVars>>

\* handle_connection, P2pMessage::Headers: a rejected header is logged.
SessionHeaders ==
  /\ conn.open
  /\ steps < MaxSessionMsgs
  /\ \E headers \in HeadersInputs(NodeOf), now \in NodeClock :
       \E c \in add_headers(chain, no_pow_check, headers, 1, now) :
         /\ chain' = c
         /\ last' = SessionLast("headers", "", TRUE, "Ok")
  /\ steps' = steps + 1
  /\ UNCHANGED <<utxos, no_pow_check, permVars, nodeVars, auxVars>>

\* handle_connection, P2pMessage::Block on a node without a database: an
\* error of add_header ends the connection, an error of reorg_to_tip is logged.
SessionBlock ==
  /\ conn.open
  /\ steps < MaxSessionMsgs
  /\ \E block \in BlockInputs(NodeOf), now \in NodeClock :
       \E start \in StartChoices(chain, block.header.prev_block_hash) :
         With(add_header(chain, block.header, no_pow_check, now, start), LAMBDA h :
           \E r \in handle_block(NodeOf, no_pow_check, block, now, start) :
             /\ NodeIs(r.node)
             /\ IF r.op = "block" /\ ~h.ok THEN SessionEnds(peers, "InvalidBlock", "header", FALSE)
                ELSE UNCHANGED <<conn, peers>>
             /\ last' = SessionLast(r.op, IF h.ok THEN "apply" ELSE "header", r.ok, r.err))
  /\ steps' = steps + 1
  /\ UNCHANGED <<no_pow_check, permVars, cfg, clock, dial, open, diskVars, reindexVars,
                 lockVars>>

\* handle_connection, P2pMessage::Block on a node with a database that fails:
\* add_header has stored the new header when persist_header or persist_tip
\* returns the error of sled, which ends the connection.
SessionBlockDbFails ==
  /\ conn.open
  /\ steps < MaxSessionMsgs
  /\ \E block \in BlockInputs(NodeOf), now \in NodeClock :
       \E start \in StartChoices(chain, block.header.prev_block_hash) :
         With(add_header(chain, block.header, no_pow_check, now, start), LAMBDA h :
           /\ header_hash(block.header) \notin seen.block
           /\ header_hash(block.header) \notin DOMAIN chain.headers
           /\ h.ok
           /\ NodeIs([NodeOf EXCEPT !.seen.block = @ \cup {header_hash(block.header)},
                                    !.blocks = MapInsert(@, header_hash(block.header), block),
                                    !.chain = h.chain])
           /\ SessionEnds(peers, "Sled", "db", FALSE)
           /\ last' = SessionLast("block", "persist", FALSE, "Sled"))
  /\ steps' = steps + 1
  /\ UNCHANGED <<no_pow_check, permVars, cfg, clock, dial, open, diskVars, reindexVars,
                 lockVars>>

\* A turn of the loop that ends before any state of the node changed:
\* read_message returns an I/O error, or the seen mutex or the peers mutex is
\* found poisoned at the first lock of the Tx arm or of the Hello arm.
LockCauses == {"seen lock", "peers lock"}
transient_error(cause) == IF cause = "io" THEN "Io" ELSE "InvalidBlock"

SessionFails ==
  /\ conn.open
  /\ \E cause \in {"io"} \cup LockCauses :
       /\ SessionEnds(peers, transient_error(cause), cause, cause = "peers lock")
       /\ last' = SessionLast("fail", "", FALSE, cause)
  /\ UNCHANGED <<utxos, chainVars, permVars, nodeVars, cfg, clock, dial, open, diskVars,
                 reindexVars, lockVars, steps>>

SessionInit ==
  /\ blocks = EmptyMap
  /\ applied = AppliedState(GenesisHash)
  /\ mempool = EmptyMempool
  /\ seen = NoSeen
  /\ cfg = MempoolConfigDefault
  /\ clock = 0
  /\ conn = NoSession
  /\ PeersAtStart
  /\ DiskAtStart
  /\ ReindexAtStart
  /\ LocksAtStart
  /\ utxos = NodeUtxos
  /\ chain = with_genesis
  /\ no_pow_check = FALSE
  /\ replica = with_genesis
  /\ pending = [a |-> {}, b |-> {}]
  /\ last = [op |-> "none", hello |-> FALSE, stage |-> "", ok |-> TRUE, err |-> "Ok"]
  /\ steps = 0

SessionNext ==
  \/ SessionAccept
  \/ SessionHello
  \/ SessionAddr
  \/ SessionTx
  \/ SessionHeaders
  \/ SessionBlock
  \/ SessionBlockDbFails
  \/ SessionFails

SpecSession == SessionInit /\ [][SessionNext]_vars

\* The errors of apply_block_with_undo that are consensus rules.
ApplyConsensusErrors ==
  {"invalid PoW", "merkle root mismatch", "coinbase must have no inputs",
   "coinbase exceeds subsidy+fees"}

\* C36: when a peer sent a Block that failed a consensus rule while it was
\* applied, the connection has ended and the peer is banned.
ApplyFailureBans ==
  (last.op = "block" /\ last.stage = "apply" /\ ~last.ok /\ last.err \in ApplyConsensusErrors)
    => (~conn.open /\ Banned(SessionPeer))

\* C37: a connection that ended because of a socket I/O error, a database
\* error or a poisoned mutex leaves the peer's address out of the ban list.
TransientCloseDoesNotBan ==
  (~conn.open /\ conn.cause \in {"io", "db"} \cup LockCauses)
    => SessionPeer \notin DOMAIN peers.banned

\* C39: the Tx, Block, Headers and Addr arms are dispatched only after a
\* Hello was accepted on the connection.
HelloBeforeHandlers ==
  last.op \in {"tx", "block", "block_seen", "headers", "addr"} => last.hello

(***************************************************************************)
(* A ChainState with a database: add_header persists the header it stored  *)
(* and the tip, load_or_genesis rebuilds the ChainState at a restart.  db   *)
(* holds the trees "headers", "heights", "work" and "meta" of sled.         *)
(***************************************************************************)
MaxRestartSteps == 4

EmptyChainDb == [headers |-> EmptyMap, heights |-> EmptyMap, work |-> EmptyMap,
                 meta |-> EmptyMap]

\* serde_json::to_vec of a BlockHeader (the values of its fields in the order
\* of the struct) and serde_json::from_slice.
header_to_json(h) ==
  <<h.version, h.prev_block_hash, h.merkle_root, h.time, h.bits, h.nonce>>
header_from_json(v) ==
  [version |-> v[1], prev_block_hash |-> v[2], merkle_root |-> v[3], time |-> v[4],
   bits |-> v[5], nonce |-> v[6]]

\* u128::to_le_bytes and u128::from_le_bytes
work_to_le_bytes(w) == [i \in 1..U128_BYTES |-> BigDigit(w, i)]
work_from_le_bytes(bytes) == BigNorm(bytes)

\* ChainState::persist_header
persist_header(d, hash, header, height, work) ==
  [d EXCEPT !.headers = MapInsert(@, hash, header_to_json(header)),
            !.heights = MapInsert(@, hash, to_le_bytes(height, U32_BYTES)),
            !.work = MapInsert(@, hash, work_to_le_bytes(work))]

\* The writes of "tip_hash" and "tip_height" to the tree "meta".
put_tip(d, tip, tip_height) ==
  [d EXCEPT !.meta = MapInsert(MapInsert(@, "tip_hash", tip), "tip_height",
                               to_le_bytes(tip_height, U32_BYTES))]

\* ChainState::persist_tip
persist_tip(d, c) ==
  put_tip(d, c.tip, IF c.tip \in DOMAIN c.heights THEN c.heights[c.tip] ELSE 0)

\* load_tip_meta
load_tip_meta(d) ==
  IF "tip_hash" \in DOMAIN d.meta /\ "tip_height" \in DOMAIN d.meta
  THEN Some([hash |-> d.meta["tip_hash"], height |-> from_le_bytes(d.meta["tip_height"])])
  ELSE None

\* load_or_genesis, the loop over the work map: the entries [hash, height] it
\* may end with.  An entry replaces the running best when it has more work,
\* or equal work and a greater height; among equal entries the first of the
\* iteration wins, and that may be any of them.  No entry is above the start
\* (no work, height 0): the tip stays all zero.
HeightIn(heights, hash) == IF hash \in DOMAIN heights THEN heights[hash] ELSE 0
Above(work, heights, a, b) ==
  \/ BigLt(work[b], work[a])
  \/ work[a] = work[b] /\ HeightIn(heights, a) > HeightIn(heights, b)
best_by_work(work, heights) ==
  With({a \in DOMAIN work : work[a] # <<>> \/ HeightIn(heights, a) > 0}, LAMBDA rising :
    IF rising = {} THEN {[hash |-> ZERO_HASH, height |-> 0]}
    ELSE {[hash |-> a, height |-> HeightIn(heights, a)] :
            a \in {a \in rising : \A b \in rising : ~Above(work, heights, b, a)}})

\* ChainState::load_or_genesis for a database that is present: the results
\* [chain, db] it may have.
load_or_genesis(d) ==
  IF DOMAIN d.headers = {} THEN {[chain |-> with_genesis, db |-> d]}
  ELSE LET headers == [k \in DOMAIN d.headers |-> header_from_json(d.headers[k])]
           heights == [k \in DOMAIN d.heights |-> from_le_bytes(d.heights[k])]
           work == [k \in DOMAIN d.work |-> work_from_le_bytes(d.work[k])]
           firsts == UNION {IF b.hash = ZERO_HASH
                            THEN {[hash |-> k, height |-> 0] : k \in DOMAIN headers}
                            ELSE {b} : b \in best_by_work(work, heights)}
           meta == load_tip_meta(d)
           tips == IF meta # None /\ meta[1].hash \in DOMAIN heights
                      /\ heights[meta[1].hash] = meta[1].height
                   THEN {meta[1]} ELSE firsts
       IN {[chain |-> [headers |-> headers, heights |-> heights, work |-> work,
                       tip |-> t.hash],
            db |-> put_tip(d, t.hash, t.height)] : t \in tips}

\* handle_connection, P2pMessage::Headers with one header, on a node with a
\* database: add_header persists the header it stored and the tip.
RestartAddHeader ==
  /\ steps < MaxRestartSteps
  /\ \E header \in LocatorHeaders :
       With(add_header(chain, header, no_pow_check, GENESIS_TIME, None), LAMBDA r :
         With(header_hash(header), LAMBDA hash :
           /\ chain' = r.chain
           /\ db' = IF r.ok /\ hash \notin DOMAIN chain.headers
                    THEN persist_tip(persist_header(db, hash, header, r.chain.heights[hash],
                                                    r.chain.work[hash]), r.chain)
                    ELSE db
           /\ last' = [op |-> "add_header", ok |-> r.ok, before |-> chain]))
  /\ steps' = steps + 1
  /\ UNCHANGED <<utxos, no_pow_check, permVars, nodeVars, cfg, netVars, data_dir, reindexVars,
                 lockVars>>

\* The node stops and starts again: run_p2p calls load_or_genesis.
Restart ==
  /\ steps < MaxRestartSteps
  /\ \E r \in load_or_genesis(db) :
       /\ chain' = r.chain
       /\ db' = r.db
       /\ last' = [op |-> "restart", ok |-> TRUE, before |-> chain]
  /\ steps' = steps + 1
  /\ UNCHANGED <<utxos, no_pow_check, permVars, nodeVars, cfg, netVars, data_dir, reindexVars,
                 lockVars>>

RestartInit ==
  /\ chain = with_genesis
  /\ no_pow_check \in BOOLEAN
  /\ replica = with_genesis
  /\ pending = [a |-> {}, b |-> {}]
  /\ blocks = EmptyMap
  /\ applied = AppliedState(GenesisHash)
  /\ mempool = EmptyMempool
  /\ seen = NoSeen
  /\ cfg = MempoolConfigDefault
  /\ NetAtStart
  /\ data_dir = EmptyDir
  /\ db = EmptyChainDb
  /\ ReindexAtStart
  /\ LocksAtStart
  /\ utxos = EmptyMap
  /\ last = [op |-> "none", ok |-> TRUE, before |-> with_genesis]
  /\ steps = 0

RestartNext == RestartAddHeader \/ Restart

SpecRestart == RestartInit /\ [][RestartNext]_vars

\* Every stored header that is not a root has its parent stored.
ParentsStored(c) ==
  \A ha \in DOMAIN c.headers :
    c.headers[ha].prev_block_hash = ZERO_HASH \/ c.headers[ha].prev_block_hash \in DOMAIN c.headers

\* C38: after accepted add_header calls on a node with a database, a restart
\* yields a ChainState with the headers, heights, work and tip of before the
\* restart, the genesis header included, and in which every header that is
\* not the genesis has its parent stored.
RestartKeepsChain ==
  last.op = "restart" =>
    /\ chain = last.before
    /\ GenesisHash \in DOMAIN chain.headers
    /\ ParentsStored(chain)

(***************************************************************************)
(* The peer slots under a row of incoming connections, each from an        *)
(* address that has not connected before (the n-th address is the number   *)
(* n) and each closed before the next arrives.                             *)
(***************************************************************************)
MaxSlotAddrs == 65
MaxSlotBans == 1

\* The addresses that have been accepted so far.
Connected == DOMAIN open

\* run_p2p, the accept loop for the next address.
SlotsAccept ==
  /\ \A addr \in Connected : OpenTo(addr) = 0
  /\ Cardinality(Connected) < MaxSlotAddrs
  /\ PeersAccept(Cardinality(Connected) + 1)

\* The thread of the open connection: handle_connection returned Ok or an
\* error that does not ban.
SlotsEnd == \E addr \in Connected : ConnEnd(addr)

\* The thread of the open connection bans the peer.
SlotsBan ==
  /\ Cardinality(DOMAIN peers.banned) < MaxSlotBans
  /\ \E addr \in Connected : ConnBan(addr)

SlotsInit ==
  /\ clock = 0
  /\ conn = NoConnection
  /\ PeersAtStart
  /\ DiskAtStart
  /\ LocksAtStart
  /\ ReindexAtStart
  /\ cfg = MempoolConfigDefault
  /\ utxos = EmptyMap
  /\ chain = with_genesis
  /\ no_pow_check = FALSE
  /\ replica = with_genesis
  /\ pending = [a |-> {}, b |-> {}]
  /\ blocks = EmptyMap
  /\ applied = AppliedState(GenesisHash)
  /\ mempool = EmptyMempool
  /\ seen = NoSeen
  /\ last = [op |-> "none", addr |-> 0, ok |-> TRUE, was_banned |-> FALSE]
  /\ steps = 0

SlotsNext == SlotsAccept \/ SlotsEnd \/ SlotsBan

SpecSlots == SlotsInit /\ [][SlotsNext]_vars

\* C40: the peer set holds at most MAX_PEERS addresses; the address of a
\* connection that closed, with or without a ban, holds no peer slot; and an
\* incoming connection from an address that is not banned is accepted.
SlotsAreFreed ==
  /\ Cardinality(peers.peers) <= MAX_PEERS
  /\ last.op \in {"end", "ban"} => last.addr \notin peers.peers
  /\ (last.op = "allow_incoming" /\ ~last.was_banned) => last.ok
====
